---- MODULE Spec2Model ----
(***************************************************************************)
(* DIL reference validator: parseDil (tolerant line scanner), validateCore *)
(* (V-M1..V-M5 and aggregation), emitCanonicalReport (canonical JSON) and  *)
(* the validator entrypoint main; the verify command of the CLI with its   *)
(* three capability checks.                                                *)
(*                                                                         *)
(* Strings that the code only stores or prints are TLA+ strings.  Strings  *)
(* that the code compares with localeCompare are sequences of atoms        *)
(* ranked by Collation; a text is the sequence of its lines.               *)
(***************************************************************************)
EXTENDS Integers, Sequences, FiniteSets, TLC

VARIABLES
    pc,                  \* position of main / of the function under study
    raw,                 \* inputText: the lines of the input file
    file,                \* the spec path: its status and its content
    i,                   \* parseDil: index of the next line of the scan
    inSystem,            \* parseDil: inside the system block
    braceDepth,          \* parseDil: signed brace depth
    currentSection,      \* parseDil: section being scanned or "unknown"
    sectionDepth,        \* parseDil: depth recorded at section entry
    sectionStartLine,    \* parseDil: line index of the section entry
    currentDecisionId,   \* parseDil: decision cursor (Null when none)
    currentValidationId, \* parseDil: validation cursor (Null when none)
    spec,                \* parseDil: the ParsedSpec under construction
    parsed,              \* the ParsedSpec handed to validateCore
    result,              \* validateCore's { report, exit_code }
    canonicalObj,        \* emitCanonicalReport: the key-sorted object
    stdout,              \* the serialized report written by main
    exit,                \* the process exit code (-1 while running)
    vpc,                 \* verify: position of the verify command
    vin,                 \* verify: the spec read (capabilities,
                         \*         validations, predicates) and the options
    todo,                \* verify: the checks not yet run
    checks,              \* verify: the checks recorded
    ops,                 \* verify: the asynchronous checks started
    calls,               \* verify: statSync, spawn and request calls made
    receipt,             \* verify: the receipt written and the exit code
    apc,                 \* run, agent: position of the command
    ain,                 \* run, agent: the command line and the spec
    validation,          \* run, agent: exit code of validate (-1 before)
    specFile,            \* the hash of the spec file now ("absent" if none)
    dir,                 \* agent: the files of the run directory
    loop,                \* agent: gate, attempt and pass counters
    passes,              \* agent: the SinglePassResult of every pass
    written,             \* agent: files written by this invocation
    spawns,              \* run, agent: times the command was spawned
    aexit                \* run, agent: the exit code returned (-1 before)

scanVars ==
    <<i, inSystem, braceDepth, currentSection, sectionDepth,
      sectionStartLine, currentDecisionId, currentValidationId, spec>>

validatorVars ==
    <<pc, raw, file, i, inSystem, braceDepth, currentSection,
      sectionDepth, sectionStartLine, currentDecisionId,
      currentValidationId, spec, parsed, result, canonicalObj, stdout, exit>>

verifyVars == <<vpc, vin, todo, checks, ops, calls, receipt>>

agentVars ==
    <<apc, ain, validation, specFile, dir, loop, passes, written, spawns,
      aexit>>

vars == <<validatorVars, verifyVars, agentVars>>

(***************************************************************************)
(* Strings and String.prototype.localeCompare                              *)
(***************************************************************************)

\* null / undefined for an id or an optional string ("" is falsy like them)
Null == ""

\* separator used by targets.join("\u0000")
NUL == "<NUL>"

\* the double quote written by JSON.stringify around a string
Q == "\""

\* The atoms the comparators meet, in collation order (punctuation, then
\* letters and digits without regard to case).
Collation ==
    << "<NUL>", ",", ":", "\"", "[", "]", "{", "}", "BROKEN_REFERENCE",
       "C_DO_NOT_EXIST", "C1", "C2", "C9", "code", "constraint",
       "constraints.C1", "constraints.C2", "constraints.C9", "D1", "D2",
       "decision", "decisions.D1", "decisions.D2", "DIL:spec v0",
       "DIL:spec v9", "errors", "evidence", "excerpt", "extensions", "hint",
       "I_DO_NOT_EXIST", "I1", "I2", "I9", "IMPLEMENTATION_LEAK", "intent",
       "INTENT_NOT_VERIFIABLE", "intents.I1", "intents.I2", "intents.I9",
       "invalid", "kind", "location", "message", "notes", "outcomes",
       "PARSE_ERROR", "reason", "ref", "refs", "satisfied", "spec",
       "spec_version", "state", "status", "supported", "system",
       "system_id", "targets", "undecidable", "unknown", "unsatisfied",
       "UNSUPPORTED_SPEC_VERSION", "UNTRACED_DECISION", "V-M1", "V-M2",
       "V-M3", "V-M4", "V-M5", "V1", "V2", "valid", "validation",
       "validation_id", "validations.V1", "validations.V2", "value" >>

RankOf ==
    [s \in {Collation[n] : n \in 1..Len(Collation)} |->
        CHOOSE n \in 1..Len(Collation) : Collation[n] = s]

Sign(n) == IF n < 0 THEN -1 ELSE IF n > 0 THEN 1 ELSE 0

\* a.localeCompare(b) for strings given as sequences of atoms:
\* negative, zero or positive; a proper prefix sorts first.
localeCompare(a, b) ==
    LET n == IF Len(a) < Len(b) THEN Len(a) ELSE Len(b)
        d == {k \in 1..n : a[k] # b[k]}
    IN  IF d = {} THEN Sign(Len(a) - Len(b))
        ELSE LET k == CHOOSE x \in d : \A y \in d : x <= y
             IN  Sign(RankOf[a[k]] - RankOf[b[k]])

\* Array.prototype.join: the elements with sep between them
Join(seq, sep) ==
    [k \in 1..(IF Len(seq) = 0 THEN 0 ELSE 2 * Len(seq) - 1) |->
        IF k % 2 = 1 THEN seq[(k + 1) \div 2] ELSE sep]

RECURSIVE Concat(_)
Concat(ss) == IF Len(ss) = 0 THEN <<>> ELSE Head(ss) \o Concat(Tail(ss))

\* Array.prototype.sort, cmp[j][k] being what the comparator returns for
\* seq[j] and seq[k]: a stable sort, so an element goes after every smaller
\* element and after the equal ones before it.
SortBy(seq, cmp) ==
    LET n == Len(seq)
        Pos(k) ==
            1 + Cardinality({j \in 1..n : cmp[j][k] < 0})
              + Cardinality({j \in 1..(k - 1) : cmp[j][k] = 0})
    IN  [p \in 1..n |-> seq[CHOOSE k \in 1..n : Pos(k) = p]]

(***************************************************************************)
(* JSON values: strings, arrays, and objects as key/value pairs in         *)
(* insertion order.                                                        *)
(***************************************************************************)

Str(s) == [t |-> "str", s |-> s, a |-> <<>>, o |-> <<>>]
Arr(a) == [t |-> "arr", s |-> "", a |-> a, o |-> <<>>]
Obj(o) == [t |-> "obj", s |-> "", a |-> <<>>, o |-> o]
KV(k, v) == [k |-> k, v |-> v]
StrArr(ss) == Arr([k \in 1..Len(ss) |-> Str(ss[k])])

\* value[k] for a key the object holds
Get(value, key) ==
    value.o[CHOOSE k \in 1..Len(value.o) : value.o[k].k = key].v

HasKey(value, key) == \E k \in 1..Len(value.o) : value.o[k].k = key

compareKeys(x, y) == localeCompare(<<x>>, <<y>>)

RECURSIVE deepSortKeys(_)
deepSortKeys(value) ==
    IF value.t = "arr"
    THEN Arr([k \in 1..Len(value.a) |-> deepSortKeys(value.a[k])])
    ELSE IF value.t = "obj"
    THEN LET ks == [k \in 1..Len(value.o) |-> value.o[k].k]
             keys == SortBy(ks, [j \in 1..Len(ks) |-> [k \in 1..Len(ks) |->
                                   compareKeys(ks[j], ks[k])]])
         IN  Obj([k \in 1..Len(keys) |->
                     KV(keys[k], deepSortKeys(Get(value, keys[k])))])
    ELSE value

\* JSON.stringify: the token stream of the text (white space left out; with
\* indentation 2 it is a function of the same token stream).
RECURSIVE JSONStringify(_)
JSONStringify(value) ==
    IF value.t = "str" THEN <<Q, value.s, Q>>
    ELSE IF value.t = "arr"
    THEN <<"[">>
         \o Concat(Join([k \in 1..Len(value.a) |-> JSONStringify(value.a[k])],
                        <<",">>))
         \o <<"]">>
    ELSE <<"{">>
         \o Concat(Join([k \in 1..Len(value.o) |->
                            <<Q, value.o[k].k, Q, ":">>
                            \o JSONStringify(value.o[k].v)],
                        <<",">>))
         \o <<"}">>

\* a variant that serializes refs in their insertion order
stringifyAsInserted(value) == JSONStringify(value)

stableStringify(value) == JSONStringify(deepSortKeys(value))

(***************************************************************************)
(* report.ts: ValidationOutcome, StructuredError, CanonicalReport.         *)
(* An optional field is a sequence of length 0 (absent) or 1.              *)
(***************************************************************************)

Outcome(id, status, targets, reason, evidence, notes) ==
    [validation_id |-> id, status |-> status, targets |-> targets,
     reason |-> reason, evidence |-> evidence, notes |-> notes]

Error(code, message, refs) ==
    [code |-> code, message |-> message, refs |-> refs,
     evidence |-> <<>>, notes |-> <<>>]

Report(version, system, state, outcomes, errors) ==
    [spec_version |-> version, system_id |-> system, state |-> state,
     outcomes |-> outcomes, errors |-> errors,
     notes |-> <<>>, extensions |-> <<>>]

compareTargets(a, b) == localeCompare(<<a>>, <<b>>)

\* [...targets].sort((a, b) => a.localeCompare(b))
sortTargets(targets) ==
    SortBy(targets, [j \in 1..Len(targets) |-> [k \in 1..Len(targets) |->
                        compareTargets(targets[j], targets[k])]])

normalizeOutcome(o) == [o EXCEPT !.targets = sortTargets(o.targets)]

normalizeError(e) == e

\* the object literal normalizeOutcome returns, keys in the order written
OutcomeObj(o) ==
    Obj(<<KV("validation_id", Str(o.validation_id)),
          KV("status", Str(o.status)),
          KV("targets", StrArr(o.targets))>>
        \o (IF o.reason # "" THEN <<KV("reason", Str(o.reason))>> ELSE <<>>)
        \o (IF Len(o.evidence) > 0
            THEN <<KV("evidence", Arr(o.evidence[1]))>> ELSE <<>>)
        \o (IF Len(o.notes) > 0
            THEN <<KV("notes", StrArr(o.notes[1]))>> ELSE <<>>))

\* the object literal normalizeError returns; refs keeps its own key order
ErrorObj(e) ==
    Obj(<<KV("code", Str(e.code)),
          KV("message", Str(e.message)),
          KV("refs", e.refs)>>
        \o (IF Len(e.evidence) > 0
            THEN <<KV("evidence", Arr(e.evidence[1]))>> ELSE <<>>)
        \o (IF Len(e.notes) > 0
            THEN <<KV("notes", StrArr(e.notes[1]))>> ELSE <<>>))

compareOutcomes(a, b) ==
    LET c1 == localeCompare(<<a.validation_id>>, <<b.validation_id>>)
    IN  IF c1 # 0 THEN c1
        ELSE localeCompare(Join(a.targets, NUL), Join(b.targets, NUL))

compareErrors(a, b) ==
    LET c1 == localeCompare(<<a.code>>, <<b.code>>)
    IN  IF c1 # 0 THEN c1
        ELSE localeCompare(stableStringify(a.refs), stableStringify(b.refs))

sortedOutcomes(report) ==
    LET outcomes == [k \in 1..Len(report.outcomes) |->
                        normalizeOutcome(report.outcomes[k])]
    IN  SortBy(outcomes,
               [j \in 1..Len(outcomes) |-> [k \in 1..Len(outcomes) |->
                   compareOutcomes(outcomes[j], outcomes[k])]])

sortedErrors(report) ==
    LET errors == [k \in 1..Len(report.errors) |->
                      normalizeError(report.errors[k])]
    IN  SortBy(errors,
               [j \in 1..Len(errors) |-> [k \in 1..Len(errors) |->
                   compareErrors(errors[j], errors[k])]])

\* the object `normalized` of emitCanonicalReport
normalized(report) ==
    LET outcomes == sortedOutcomes(report)
        errors == sortedErrors(report)
    IN  Obj(<<KV("spec_version", Str(report.spec_version)),
              KV("system_id", Str(report.system_id)),
              KV("state", Str(report.state)),
              KV("outcomes",
                 Arr([k \in 1..Len(outcomes) |-> OutcomeObj(outcomes[k])])),
              KV("errors",
                 Arr([k \in 1..Len(errors) |-> ErrorObj(errors[k])]))>>
            \o (IF Len(report.notes) > 0
                THEN <<KV("notes", StrArr(report.notes[1]))>> ELSE <<>>)
            \o (IF Len(report.extensions) > 0
                THEN <<KV("extensions", report.extensions[1])>> ELSE <<>>))

emitCanonicalReport(report) == JSONStringify(deepSortKeys(normalized(report)))

(***************************************************************************)
(* parse.ts: the lines of the input and what parseDil's patterns make of   *)
(* them.  A row says, for one raw line: text, the line with its comment    *)
(* stripped and trimmed; kind, the pattern its text matches; id and list,  *)
(* the groups the pattern captures; opens and closes, its counts of '{'    *)
(* and '}' outside the comment.                                            *)
(***************************************************************************)

Row(text, kind, id, list, opens, closes) ==
    [text |-> text, kind |-> kind, id |-> id, list |-> list,
     opens |-> opens, closes |-> closes]

Lex ==
    "DIL:spec v0" :> Row("DIL:spec v0", "header", Null, <<>>, 0, 0)
 @@ "DIL:spec v9" :> Row("DIL:spec v9", "header", Null, <<>>, 0, 0)
 @@ "DILspec" :> Row("DILspec", "other", Null, <<>>, 0, 0)
 @@ "" :> Row("", "blank", Null, <<>>, 0, 0)
 @@ "# validations: [V1]" :> Row("", "blank", Null, <<>>, 0, 0)
 @@ "# LRU {" :> Row("", "blank", Null, <<>>, 0, 0)
 @@ "system \"S\" {" :> Row("system \"S\" {", "system", "S", <<>>, 1, 0)
 @@ "system \"S\" {}" :> Row("system \"S\" {}", "system", "S", <<>>, 1, 1)
 @@ "about {" :> Row("about {", "section", "about", <<>>, 1, 0)
 @@ "capabilities {"
        :> Row("capabilities {", "section", "capabilities", <<>>, 1, 0)
 @@ "intents {" :> Row("intents {", "section", "intents", <<>>, 1, 0)
 @@ "constraints {"
        :> Row("constraints {", "section", "constraints", <<>>, 1, 0)
 @@ "decisions {"
        :> Row("decisions {", "section", "decisions", <<>>, 1, 0)
 @@ "validations {"
        :> Row("validations {", "section", "validations", <<>>, 1, 0)
 @@ "implementation_notes {"
        :> Row("implementation_notes {", "section", "implementation_notes",
               <<>>, 1, 0)
 @@ "extras {" :> Row("extras {", "other", Null, <<>>, 1, 0)
 @@ "}" :> Row("}", "other", Null, <<>>, 0, 1)
 @@ "x" :> Row("x", "word", "x", <<>>, 0, 0)
 @@ "emit_structured_errors"
        :> Row("emit_structured_errors", "word", "emit_structured_errors",
               <<>>, 0, 0)
 @@ "intent I1 {" :> Row("intent I1 {", "intent", "I1", <<>>, 1, 0)
 @@ "intent I2 {" :> Row("intent I2 {", "intent", "I2", <<>>, 1, 0)
 @@ "intent I1" :> Row("intent I1", "intent", "I1", <<>>, 0, 0)
 @@ "  validations: [V1]"
        :> Row("validations: [V1]", "association", Null, <<>>, 0, 0)
 @@ "validation: V1"
        :> Row("validation: V1", "association", Null, <<>>, 0, 0)
 @@ "constraint C1 {"
        :> Row("constraint C1 {", "constraint", "C1", <<>>, 1, 0)
 @@ "constraint C2 {"
        :> Row("constraint C2 {", "constraint", "C2", <<>>, 1, 0)
 @@ "severity: HARD"
        :> Row("severity: HARD", "severity", "HARD", <<>>, 0, 0)
 @@ "severity: SOFT"
        :> Row("severity: SOFT", "severity", "SOFT", <<>>, 0, 0)
 @@ "decision D1 {" :> Row("decision D1 {", "decision", "D1", <<>>, 1, 0)
 @@ "decision D2 {" :> Row("decision D2 {", "decision", "D2", <<>>, 1, 0)
 @@ "decision D1" :> Row("decision D1", "decision", "D1", <<>>, 0, 0)
 @@ "supports: [I1]"
        :> Row("supports: [I1]", "supports", Null, <<"I1">>, 0, 0)
 @@ "supports: [I2, I9]"
        :> Row("supports: [I2, I9]", "supports", Null, <<"I2", "I9">>,
               0, 0)
 @@ "supports: []" :> Row("supports: []", "supports", Null, <<>>, 0, 0)
 @@ "respects: [C1]"
        :> Row("respects: [C1]", "respects", Null, <<"C1">>, 0, 0)
 @@ "respects: [\"C9\"]"
        :> Row("respects: [\"C9\"]", "respects", Null, <<"C9">>, 0, 0)
 @@ "validate V1 {" :> Row("validate V1 {", "validate", "V1", <<>>, 1, 0)
 @@ "validate V2 {" :> Row("validate V2 {", "validate", "V2", <<>>, 1, 0)
 @@ "requires_capability: \"x\""
        :> Row("requires_capability: \"x\"", "requires_capability", "x",
               <<>>, 0, 0)
 @@ "title: \"t\"" :> Row("title: \"t\"", "other", Null, <<>>, 0, 0)
 @@ "use an LRU cache"
        :> Row("use an LRU cache", "other", Null, <<>>, 0, 0)

\* stripComments(line).trim()
stripComments(line) == Lex[line].text

countChar(line, ch) ==
    IF ch = "{" THEN Lex[line].opens
    ELSE IF ch = "}" THEN Lex[line].closes
    ELSE 0

\* the capture of a pattern on a line, Null when the line does not match
Capture(line, kind) ==
    IF Lex[line].kind = kind THEN Lex[line].id ELSE Null

Matches(line, kind) == Lex[line].kind = kind

SectionNames ==
    {"about", "capabilities", "intents", "constraints", "decisions",
     "validations", "change", "implementation_notes"}

\* parseBracketList(value) on a supports: or respects: line
parseBracketList(line) == Lex[line].list

\* parseQuotedOrBare(value) on a requires_capability: line
parseQuotedOrBare(line) == Lex[line].id

(***************************************************************************)
(* ParsedSpec.  A Map or Set is the sequence of its entries in insertion   *)
(* order, each id at most once; sections_raw is a function whose domain    *)
(* is the set of keys written so far.                                      *)
(***************************************************************************)

Has(map, id) == \E k \in 1..Len(map) : map[k].id = id

IndexOf(map, id) == CHOOSE k \in 1..Len(map) : map[k].id = id

Ids(map) == [k \in 1..Len(map) |-> map[k].id]

SetKey(f, key, value) ==
    [x \in (DOMAIN f) \cup {key} |-> IF x = key THEN value ELSE f[x]]

NoSections == [x \in {} |-> <<>>]

Issue(message, line) ==
    [code |-> "PARSE_ERROR", message |-> message, line |-> line,
     fatal |-> FALSE]

NonBlank(lines) == {k \in 1..Len(lines) : stripComments(lines[k]) # ""}

FirstOf(S) == CHOOSE x \in S : \A y \in S : x <= y

\* a variant: the first line is taken as the version whatever it holds
headerVersionVerbatim(lines) ==
    IF NonBlank(lines) # {}
    THEN stripComments(lines[FirstOf(NonBlank(lines))])
    ELSE "unknown"

\* step 1 of parseDil: the header line decides spec_version
headerVersion(lines) ==
    IF NonBlank(lines) # {} /\ Matches(lines[FirstOf(NonBlank(lines))], "header")
    THEN stripComments(lines[FirstOf(NonBlank(lines))])
    ELSE "unknown"

headerIssues(lines) ==
    IF NonBlank(lines) # {} /\ ~Matches(lines[FirstOf(NonBlank(lines))], "header")
    THEN <<Issue("Missing or invalid spec header. Expected 'DIL:spec v<MAJOR>' but got '"
                   \o stripComments(lines[FirstOf(NonBlank(lines))]) \o "'.",
                 FirstOf(NonBlank(lines)))>>
    ELSE <<>>

\* step 2 of parseDil: the first system "X" { line decides system_id
SystemLines(lines) == {k \in 1..Len(lines) : Matches(lines[k], "system")}

systemId(lines) ==
    IF SystemLines(lines) # {}
    THEN Capture(lines[FirstOf(SystemLines(lines))], "system")
    ELSE "unknown"

systemIssues(lines) ==
    IF systemId(lines) = "unknown"
    THEN <<Issue("Missing system declaration. Expected: system \"ID\" { ... }", 1)>>
    ELSE <<>>

\* the ParsedSpec parseDil starts the scan with
newSpec(lines) ==
    [spec_version |-> headerVersion(lines),
     system_id |-> systemId(lines),
     raw_text |-> lines,
     sections_raw |-> NoSections,
     capabilities |-> <<>>,
     intents |-> <<>>,
     constraints |-> <<>>,
     decisions |-> <<>>,
     validations |-> <<>>,
     issues |-> headerIssues(lines) \o systemIssues(lines)]


(***************************************************************************)
(* parseDil step 3: the body of the scan loop for one line inside the      *)
(* system block, as the values it leaves behind.                           *)
(***************************************************************************)

\* a variant: a section line opens its section at any depth
secMatchAnyDepth(depth, line) ==
    IF Matches(line, "section") THEN Capture(line, "section") ELSE Null

\* section entry: a known section name followed by '{' at depth exactly 1
secMatch(depth, line) ==
    IF depth = 1 /\ Matches(line, "section") THEN Capture(line, "section")
    ELSE Null

\* spec.sections_raw after entry (reset to "") and accumulation of rawLine
rawAfter(sp, depth, section, rawLine) ==
    LET entered == IF secMatch(depth, rawLine) # Null
                   THEN SetKey(sp.sections_raw, secMatch(depth, rawLine), <<>>)
                   ELSE sp.sections_raw
    IN  IF section # "unknown"
        THEN [entered EXCEPT ![section] = Append(entered[section], rawLine)]
        ELSE entered

capabilitiesAfter(sp, section, line) ==
    IF section = "capabilities" /\ Matches(line, "word")
       /\ \A k \in 1..Len(sp.capabilities) :
             sp.capabilities[k] # Capture(line, "word")
    THEN Append(sp.capabilities, Capture(line, "word"))
    ELSE sp.capabilities

\* a variant: a repeated intent line moves its entry to the end
intentsAfterMoving(sp, section, line) ==
    IF section = "intents" /\ Matches(line, "intent")
    THEN Append(SelectSeq(sp.intents,
                          LAMBDA e : e.id # Capture(line, "intent")),
                [id |-> Capture(line, "intent")])
    ELSE sp.intents

intentsAfter(sp, section, line) ==
    IF section = "intents" /\ Matches(line, "intent")
       /\ ~Has(sp.intents, Capture(line, "intent"))
    THEN Append(sp.intents, [id |-> Capture(line, "intent")])
    ELSE sp.intents

\* a variant: the severity goes to the first constraint registered
constraintsAfterFirst(sp, section, line) ==
    LET declared ==
            IF section = "constraints" /\ Matches(line, "constraint")
               /\ ~Has(sp.constraints, Capture(line, "constraint"))
            THEN Append(sp.constraints,
                        [id |-> Capture(line, "constraint"), severity |-> Null])
            ELSE sp.constraints
    IN  IF section = "constraints" /\ Matches(line, "severity")
           /\ Len(declared) > 0
        THEN [declared EXCEPT ![1].severity = Capture(line, "severity")]
        ELSE declared

constraintsAfter(sp, section, line) ==
    LET declared ==
            IF section = "constraints" /\ Matches(line, "constraint")
               /\ ~Has(sp.constraints, Capture(line, "constraint"))
            THEN Append(sp.constraints,
                        [id |-> Capture(line, "constraint"), severity |-> Null])
            ELSE sp.constraints
    IN  IF section = "constraints" /\ Matches(line, "severity")
           /\ Len(declared) > 0
        THEN [declared EXCEPT ![Len(declared)].severity =
                                  Capture(line, "severity")]
        ELSE declared

\* the decision cursor after a line scanned in `section`
decisionCursor(cursor, section, line) ==
    IF section = "decisions" /\ Matches(line, "decision")
    THEN Capture(line, "decision") ELSE cursor

\* a variant: the cursor outlives the section, the caller's reset is undone
\* by taking the last decision registered when no cursor is set
decisionsAfterKeepingCursor(sp, cursor, section, line) ==
    LET cur == IF section = "decisions" /\ Matches(line, "decision")
               THEN Capture(line, "decision")
               ELSE IF cursor = Null /\ Len(sp.decisions) > 0
               THEN sp.decisions[Len(sp.decisions)].id
               ELSE cursor
        declared ==
            IF section = "decisions" /\ Matches(line, "decision")
               /\ ~Has(sp.decisions, cur)
            THEN Append(sp.decisions,
                        [id |-> cur, supports |-> <<>>, respects |-> <<>>])
            ELSE sp.decisions
    IN  IF section = "decisions" /\ cur # Null /\ Has(declared, cur)
        THEN IF Matches(line, "supports")
             THEN [declared EXCEPT ![IndexOf(declared, cur)].supports =
                                       parseBracketList(line)]
             ELSE IF Matches(line, "respects")
             THEN [declared EXCEPT ![IndexOf(declared, cur)].respects =
                                       parseBracketList(line)]
             ELSE declared
        ELSE declared

decisionsAfter(sp, cursor, section, line) ==
    LET cur == decisionCursor(cursor, section, line)
        declared ==
            IF section = "decisions" /\ Matches(line, "decision")
               /\ ~Has(sp.decisions, cur)
            THEN Append(sp.decisions,
                        [id |-> cur, supports |-> <<>>, respects |-> <<>>])
            ELSE sp.decisions
    IN  IF section = "decisions" /\ cur # Null /\ Has(declared, cur)
        THEN IF Matches(line, "supports")
             THEN [declared EXCEPT ![IndexOf(declared, cur)].supports =
                                       parseBracketList(line)]
             ELSE IF Matches(line, "respects")
             THEN [declared EXCEPT ![IndexOf(declared, cur)].respects =
                                       parseBracketList(line)]
             ELSE declared
        ELSE declared

validationCursor(cursor, section, line) ==
    IF section = "validations" /\ Matches(line, "validate")
    THEN Capture(line, "validate") ELSE cursor

validationsAfter(sp, cursor, section, line) ==
    LET cur == validationCursor(cursor, section, line)
        declared ==
            IF section = "validations" /\ Matches(line, "validate")
               /\ ~Has(sp.validations, cur)
            THEN Append(sp.validations,
                        [id |-> cur, requires_capability |-> Null])
            ELSE sp.validations
    IN  IF section = "validations" /\ cur # Null /\ Has(declared, cur)
           /\ Matches(line, "requires_capability")
        THEN [declared EXCEPT ![IndexOf(declared, cur)].requires_capability =
                                  parseQuotedOrBare(line)]
        ELSE declared

\* the brace depth after the line
depthAfter(depth, line) ==
    depth + countChar(line, "{") - countChar(line, "}")

\* section exit: the depth dropped below the depth recorded at entry
exitsSection(section, entryDepth, depth) ==
    section # "unknown" /\ entryDepth # -1 /\ depth < entryDepth

\* parseDil is called: steps 1 and 2 and the locals of the scan
ParseStart ==
    /\ pc = "parse"
    /\ spec' = newSpec(raw)
    /\ i' = 1
    /\ inSystem' = FALSE
    /\ braceDepth' = 0
    /\ currentSection' = "unknown"
    /\ sectionDepth' = -1
    /\ sectionStartLine' = -1
    /\ currentDecisionId' = Null
    /\ currentValidationId' = Null
    /\ pc' = "scan"
    /\ UNCHANGED <<agentVars, verifyVars, raw, file, parsed, result, canonicalObj, stdout, exit>>

\* one iteration of the scan loop before the system block is entered
ScanOutside ==
    /\ pc = "scan" /\ i <= Len(raw) /\ ~inSystem
    /\ inSystem' = Matches(raw[i], "system")
    /\ braceDepth' = IF Matches(raw[i], "system")
                     THEN depthAfter(braceDepth, raw[i]) ELSE braceDepth
    /\ i' = i + 1
    /\ UNCHANGED <<agentVars, verifyVars, pc, raw, file, currentSection, sectionDepth,
                   sectionStartLine, currentDecisionId, currentValidationId,
                   spec, parsed, result, canonicalObj, stdout, exit>>

\* one iteration of the scan loop inside the system block
ScanLine ==
    /\ pc = "scan" /\ i <= Len(raw) /\ inSystem
    /\ LET rawLine == raw[i]
           enters == secMatch(braceDepth, rawLine) # Null
           section == IF enters THEN secMatch(braceDepth, rawLine)
                      ELSE currentSection
           entryDepth == IF enters THEN braceDepth + 1 ELSE sectionDepth
           dCursor == IF enters THEN Null ELSE currentDecisionId
           vCursor == IF enters THEN Null ELSE currentValidationId
           depth == depthAfter(braceDepth, rawLine)
           exits == exitsSection(section, entryDepth, depth)
       IN  /\ spec' = [spec EXCEPT
                 !.sections_raw = rawAfter(spec, braceDepth, section, rawLine),
                 !.capabilities = capabilitiesAfter(spec, section, rawLine),
                 !.intents = intentsAfter(spec, section, rawLine),
                 !.constraints = constraintsAfter(spec, section, rawLine),
                 !.decisions = decisionsAfter(spec, dCursor, section, rawLine),
                 !.validations =
                     validationsAfter(spec, vCursor, section, rawLine)]
           /\ braceDepth' = depth
           /\ currentSection' = IF exits THEN "unknown" ELSE section
           /\ sectionDepth' = IF exits THEN -1 ELSE entryDepth
           /\ sectionStartLine' = IF exits THEN -1
                                  ELSE IF enters THEN i - 1
                                  ELSE sectionStartLine
           /\ currentDecisionId' =
                 IF exits THEN Null
                 ELSE decisionCursor(dCursor, section, rawLine)
           /\ currentValidationId' =
                 IF exits THEN Null
                 ELSE validationCursor(vCursor, section, rawLine)
           /\ IF depth <= 0
              THEN pc' = "scanned" /\ i' = i
              ELSE pc' = "scan" /\ i' = i + 1
    /\ UNCHANGED <<agentVars, verifyVars, raw, file, inSystem, parsed, result, canonicalObj,
                   stdout, exit>>

\* the scan is over (end of input or break): the last issue and the return
ParseReturn ==
    /\ \/ pc = "scan" /\ i > Len(raw)
       \/ pc = "scanned"
    /\ parsed' =
          [spec EXCEPT !.issues =
              IF ~inSystem
              THEN Append(spec.issues,
                          Issue("System block was not detected; validation may be unreliable.", 1))
              ELSE spec.issues]
    /\ pc' = "validate"
    /\ UNCHANGED <<agentVars, verifyVars, raw, file, scanVars, result, canonicalObj, stdout, exit>>


(***************************************************************************)
(* validate.ts: validateCore                                               *)
(***************************************************************************)

fq(kind, id) == kind \o "." \o id

RECURSIVE JoinStr(_, _)
JoinStr(seq, sep) ==
    IF Len(seq) = 0 THEN ""
    ELSE IF Len(seq) = 1 THEN seq[1]
    ELSE seq[1] \o sep \o JoinStr(Tail(seq), sep)

\* Array.prototype.sort() without comparator; on the qualified names of
\* one kind it orders as the collation does
defaultSort(seq) == sortTargets(seq)

(***************************************************************************)
(* validate.ts: the raw text as characters, and the regular expressions    *)
(* of hasImplementationLeak.                                               *)
(***************************************************************************)

\* the characters of each raw line
Spell ==
    "DIL:spec v0" :>
        <<"D", "I", "L", ":", "s", "p", "e", "c", " ", "v", "0">>
 @@ "DIL:spec v9" :>
        <<"D", "I", "L", ":", "s", "p", "e", "c", " ", "v", "9">>
 @@ "DILspec" :>
        <<"D", "I", "L", "s", "p", "e", "c">>
 @@ "" :>
        <<>>
 @@ "# validations: [V1]" :>
        <<"#", " ", "v", "a", "l", "i", "d", "a", "t", "i", "o", "n", "s",
        ":", " ", "[", "V", "1", "]">>
 @@ "# LRU {" :>
        <<"#", " ", "L", "R", "U", " ", "{">>
 @@ "system \"S\" {" :>
        <<"s", "y", "s", "t", "e", "m", " ", "\"", "S", "\"", " ", "{">>
 @@ "about {" :>
        <<"a", "b", "o", "u", "t", " ", "{">>
 @@ "capabilities {" :>
        <<"c", "a", "p", "a", "b", "i", "l", "i", "t", "i", "e", "s", " ",
        "{">>
 @@ "intents {" :>
        <<"i", "n", "t", "e", "n", "t", "s", " ", "{">>
 @@ "constraints {" :>
        <<"c", "o", "n", "s", "t", "r", "a", "i", "n", "t", "s", " ", "{">>
 @@ "decisions {" :>
        <<"d", "e", "c", "i", "s", "i", "o", "n", "s", " ", "{">>
 @@ "validations {" :>
        <<"v", "a", "l", "i", "d", "a", "t", "i", "o", "n", "s", " ", "{">>
 @@ "implementation_notes {" :>
        <<"i", "m", "p", "l", "e", "m", "e", "n", "t", "a", "t", "i", "o",
        "n", "_", "n", "o", "t", "e", "s", " ", "{">>
 @@ "extras {" :>
        <<"e", "x", "t", "r", "a", "s", " ", "{">>
 @@ "}" :>
        <<"}">>
 @@ "x" :>
        <<"x">>
 @@ "emit_structured_errors" :>
        <<"e", "m", "i", "t", "_", "s", "t", "r", "u", "c", "t", "u", "r",
        "e", "d", "_", "e", "r", "r", "o", "r", "s">>
 @@ "intent I1 {" :>
        <<"i", "n", "t", "e", "n", "t", " ", "I", "1", " ", "{">>
 @@ "intent I2 {" :>
        <<"i", "n", "t", "e", "n", "t", " ", "I", "2", " ", "{">>
 @@ "intent I1" :>
        <<"i", "n", "t", "e", "n", "t", " ", "I", "1">>
 @@ "  validations: [V1]" :>
        <<" ", " ", "v", "a", "l", "i", "d", "a", "t", "i", "o", "n", "s",
        ":", " ", "[", "V", "1", "]">>
 @@ "validation: V1" :>
        <<"v", "a", "l", "i", "d", "a", "t", "i", "o", "n", ":", " ", "V",
        "1">>
 @@ "constraint C1 {" :>
        <<"c", "o", "n", "s", "t", "r", "a", "i", "n", "t", " ", "C", "1",
        " ", "{">>
 @@ "constraint C2 {" :>
        <<"c", "o", "n", "s", "t", "r", "a", "i", "n", "t", " ", "C", "2",
        " ", "{">>
 @@ "severity: HARD" :>
        <<"s", "e", "v", "e", "r", "i", "t", "y", ":", " ", "H", "A", "R",
        "D">>
 @@ "severity: SOFT" :>
        <<"s", "e", "v", "e", "r", "i", "t", "y", ":", " ", "S", "O", "F",
        "T">>
 @@ "decision D1 {" :>
        <<"d", "e", "c", "i", "s", "i", "o", "n", " ", "D", "1", " ", "{">>
 @@ "decision D2 {" :>
        <<"d", "e", "c", "i", "s", "i", "o", "n", " ", "D", "2", " ", "{">>
 @@ "supports: [I1]" :>
        <<"s", "u", "p", "p", "o", "r", "t", "s", ":", " ", "[", "I", "1",
        "]">>
 @@ "supports: [I2, I9]" :>
        <<"s", "u", "p", "p", "o", "r", "t", "s", ":", " ", "[", "I", "2",
        ",", " ", "I", "9", "]">>
 @@ "supports: []" :>
        <<"s", "u", "p", "p", "o", "r", "t", "s", ":", " ", "[", "]">>
 @@ "respects: [C1]" :>
        <<"r", "e", "s", "p", "e", "c", "t", "s", ":", " ", "[", "C", "1",
        "]">>
 @@ "respects: [\"C9\"]" :>
        <<"r", "e", "s", "p", "e", "c", "t", "s", ":", " ", "[", "\"", "C",
        "9", "\"", "]">>
 @@ "validate V1 {" :>
        <<"v", "a", "l", "i", "d", "a", "t", "e", " ", "V", "1", " ", "{">>
 @@ "validate V2 {" :>
        <<"v", "a", "l", "i", "d", "a", "t", "e", " ", "V", "2", " ", "{">>
 @@ "requires_capability: \"x\"" :>
        <<"r", "e", "q", "u", "i", "r", "e", "s", "_", "c", "a", "p", "a",
        "b", "i", "l", "i", "t", "y", ":", " ", "\"", "x", "\"">>
 @@ "title: \"t\"" :>
        <<"t", "i", "t", "l", "e", ":", " ", "\"", "t", "\"">>
 @@ "use an LRU cache" :>
        <<"u", "s", "e", " ", "a", "n", " ", "L", "R", "U", " ", "c", "a",
        "c", "h", "e">>
 @@ "a b-tree index" :>
        <<"a", " ", "b", "-", "t", "r", "e", "e", " ", "i", "n", "d", "e",
        "x">>
 @@ "cost is O(log n)" :>
        <<"c", "o", "s", "t", " ", "i", "s", " ", "O", "(", "l", "o", "g",
        " ", "n", ")">>
 @@ "lookup is O(n)" :>
        <<"l", "o", "o", "k", "u", "p", " ", "i", "s", " ", "O", "(", "n",
        ")">>
 @@ "O(n)x" :>
        <<"O", "(", "n", ")", "x">>
 @@ "rebalance shards" :>
        <<"r", "e", "b", "a", "l", "a", "n", "c", "e", " ", "s", "h", "a",
        "r", "d", "s">>
 @@ "background job" :>
        <<"b", "a", "c", "k", "g", "r", "o", "u", "n", "d", " ", "j", "o",
        "b">>
 @@ "compaction" :>
        <<"c", "o", "m", "p", "a", "c", "t", "i", "o", "n">>
 @@ "every 5 minutes" :>
        <<"e", "v", "e", "r", "y", " ", "5", " ", "m", "i", "n", "u", "t",
        "e", "s">>
 @@ "every 5" :>
        <<"e", "v", "e", "r", "y", " ", "5">>
 @@ "minutes" :>
        <<"m", "i", "n", "u", "t", "e", "s">>
 @@ "# uses lru" :>
        <<"#", " ", "u", "s", "e", "s", " ", "l", "r", "u">>
 @@ "pool of workers" :>
        <<"p", "o", "o", "l", " ", "o", "f", " ", "w", "o", "r", "k", "e",
        "r", "s">>

NL == "\n"

\* the characters of the raw text: its lines with a line feed between them
charsOf(rawText) ==
    Concat(Join([k \in 1..Len(rawText) |-> Spell[rawText[k]]], <<NL>>))

\* the i flag: characters are compared without regard to case
toLowerCase ==
    "A" :> "a" @@ "B" :> "b" @@ "C" :> "c" @@ "D" :> "d" @@ "E" :> "e" @@
        "F" :> "f" @@ "G" :> "g" @@ "H" :> "h" @@ "I" :> "i" @@
        "J" :> "j" @@ "K" :> "k" @@ "L" :> "l" @@ "M" :> "m" @@
        "N" :> "n" @@ "O" :> "o" @@ "P" :> "p" @@ "Q" :> "q" @@
        "R" :> "r" @@ "S" :> "s" @@ "T" :> "t" @@ "U" :> "u" @@
        "V" :> "v" @@ "W" :> "w" @@ "X" :> "x" @@ "Y" :> "y" @@ "Z" :> "z"

fold(c) == IF c \in DOMAIN toLowerCase THEN toLowerCase[c] ELSE c

\* \w
WordChars ==
    {"A", "B", "C", "D", "E", "F", "G", "H", "I", "J", "K", "L", "M", "N",
     "O", "P", "Q", "R", "S", "T", "U", "V", "W", "X", "Y", "Z", "a", "b",
     "c", "d", "e", "f", "g", "h", "i", "j", "k", "l", "m", "n", "o", "p",
     "q", "r", "s", "t", "u", "v", "w", "x", "y", "z", "0", "1", "2", "3",
     "4", "5", "6", "7", "8", "9", "_"}

\* \s and \d
SpaceChars == {" ", "\t", NL, "\r"}

DigitChars == {"0", "1", "2", "3", "4", "5", "6", "7", "8", "9"}

\* the elements of a pattern: a literal character, \b, a class repeated
\* (* or +) and an optional literal (?)
Lit(c) == [k |-> "lit", c |-> c, set |-> {}, min |-> 1]
WordBoundary == [k |-> "b", c |-> "", set |-> {}, min |-> 0]
Star(set) == [k |-> "rep", c |-> "", set |-> set, min |-> 0]
Plus(set) == [k |-> "rep", c |-> "", set |-> set, min |-> 1]
Opt(c) == [k |-> "opt", c |-> c, set |-> {}, min |-> 0]

isWordAt(t, n) == n >= 1 /\ n <= Len(t) /\ t[n] \in WordChars

\* \b before the character at position n
atBoundary(t, n) == isWordAt(t, n - 1) # isWordAt(t, n)

\* the length of the longest run of characters of set from position n on
runFrom(t, n, set) ==
    CHOOSE m \in 0..(Len(t) - n + 1) :
        /\ \A k \in 0..(m - 1) : t[n + k] \in set
        /\ (n + m > Len(t) \/ t[n + m] \notin set)

\* the positions at which a match of re[e..] that starts at position n of t
\* can end (the position after its last character)
RECURSIVE matchEnds(_, _, _, _)
matchEnds(re, e, t, n) ==
    IF e > Len(re) THEN {n}
    ELSE IF re[e].k = "lit"
    THEN IF n <= Len(t) /\ fold(t[n]) = fold(re[e].c)
         THEN matchEnds(re, e + 1, t, n + 1) ELSE {}
    ELSE IF re[e].k = "b"
    THEN IF atBoundary(t, n) THEN matchEnds(re, e + 1, t, n) ELSE {}
    ELSE IF re[e].k = "opt"
    THEN matchEnds(re, e + 1, t, n)
         \cup (IF n <= Len(t) /\ fold(t[n]) = fold(re[e].c)
               THEN matchEnds(re, e + 1, t, n + 1) ELSE {})
    ELSE UNION {matchEnds(re, e + 1, t, n + m) :
                   m \in re[e].min..runFrom(t, n, re[e].set)}

\* RegExp.prototype.test
test(re, t) == \E n \in 1..(Len(t) + 1) : matchEnds(re, 1, t, n) # {}

\* the eight patterns of hasImplementationLeak
signals ==
    << <<WordBoundary, Lit("B"), Lit("-"), Lit("T"), Lit("r"), Lit("e"),
         Lit("e"), WordBoundary>>,
       <<WordBoundary, Lit("L"), Lit("R"), Lit("U"), WordBoundary>>,
       <<WordBoundary, Lit("O"), Lit("("), Star(SpaceChars), Lit("l"),
         Lit("o"), Lit("g"), Star(SpaceChars), Lit("n"), Star(SpaceChars),
         Lit(")"), WordBoundary>>,
       <<WordBoundary, Lit("O"), Lit("("), Star(SpaceChars), Lit("n"),
         Star(SpaceChars), Lit(")"), WordBoundary>>,
       <<WordBoundary, Lit("r"), Lit("e"), Lit("b"), Lit("a"), Lit("l"),
         Lit("a"), Lit("n"), Lit("c"), Lit("e"), WordBoundary>>,
       <<WordBoundary, Lit("b"), Lit("a"), Lit("c"), Lit("k"), Lit("g"),
         Lit("r"), Lit("o"), Lit("u"), Lit("n"), Lit("d"), WordBoundary>>,
       <<WordBoundary, Lit("c"), Lit("o"), Lit("m"), Lit("p"), Lit("a"),
         Lit("c"), Lit("t"), Lit("i"), Lit("o"), Lit("n"), WordBoundary>>,
       <<WordBoundary, Lit("e"), Lit("v"), Lit("e"), Lit("r"), Lit("y"),
         Plus(SpaceChars), Plus(DigitChars), Plus(SpaceChars), Lit("m"),
         Lit("i"), Lit("n"), Lit("u"), Lit("t"), Lit("e"), Opt("s"),
         WordBoundary>> >>

hasImplementationLeak(rawText) ==
    \E k \in 1..Len(signals) : test(signals[k], charsOf(rawText))

RECURSIVE associationScan(_, _, _, _)
associationScan(lines, k, inBlock, intentId) ==
    IF k > Len(lines) THEN FALSE
    ELSE IF stripComments(lines[k]) = ""
    THEN associationScan(lines, k + 1, inBlock, intentId)
    ELSE IF Matches(lines[k], "intent")
    THEN associationScan(lines, k + 1,
                         Capture(lines[k], "intent") = intentId, intentId)
    ELSE IF inBlock /\ Matches(lines[k], "association") THEN TRUE
    ELSE associationScan(lines, k + 1, inBlock, intentId)

\* a variant that accepts an association line of any intent's block
intentHasAssociationAnywhere(intentsRaw, intentId) ==
    \E k \in 1..Len(intentsRaw) :
        /\ stripComments(intentsRaw[k]) # ""
        /\ Matches(intentsRaw[k], "association")

intentHasExplicitAssociation(intentsRaw, intentId) ==
    associationScan(intentsRaw, 1, FALSE, intentId)

supportedVersions == <<"DIL:spec v0">>

\* a variant: every declared version passes the gate
versionSupportedAnyDeclared(specVersion) == specVersion # "unknown"

versionSupported(specVersion) ==
    \E k \in 1..Len(supportedVersions) : supportedVersions[k] = specVersion

\* the report of the version gate
unsupportedReport(p) ==
    [report |->
        Report(p.spec_version, p.system_id, "invalid", <<>>,
               <<Error("UNSUPPORTED_SPEC_VERSION",
                       "Validator does not support the declared spec version.",
                       Obj(<<KV("spec", Str(p.spec_version)),
                             KV("supported", StrArr(supportedVersions))>>))>>),
     exit_code |-> 1]

\* ---- V-M1
intentsRawOf(p) ==
    IF "intents" \in DOMAIN p.sections_raw THEN p.sections_raw["intents"]
    ELSE <<>>

hasReqCapValidation(p) ==
    \E k \in 1..Len(p.validations) : p.validations[k].requires_capability # Null

supportedBySomeDecision(p, intentId) ==
    \E k \in 1..Len(p.decisions) :
        \E j \in 1..Len(p.decisions[k].supports) :
            p.decisions[k].supports[j] = intentId

implied(p, intentId) ==
    hasReqCapValidation(p) /\ supportedBySomeDecision(p, intentId)

intentOk(p, intentId) ==
    intentHasExplicitAssociation(intentsRawOf(p), intentId)
    \/ implied(p, intentId)

v1_unsatisfied_targets(p) ==
    LET bad == SelectSeq(Ids(p.intents), LAMBDA id : ~intentOk(p, id))
    IN  [k \in 1..Len(bad) |-> fq("intents", bad[k])]

v1Errors(p) ==
    LET t == v1_unsatisfied_targets(p)
    IN  [k \in 1..Len(t) |->
            Error("INTENT_NOT_VERIFIABLE",
                  "Intent lacks explicit validation; verifiability is required.",
                  Obj(<<KV("intent", Str(t[k])),
                        KV("validation", Str("V-M1"))>>))]

\* the intents entered in intentValidationAssoc
assocIntents(p) == SelectSeq(Ids(p.intents), LAMBDA id : implied(p, id))

reqCapValidationId(p) ==
    p.validations[FirstOf({k \in 1..Len(p.validations) :
                             p.validations[k].requires_capability # Null})].id

v1Notes(p) ==
    IF Len(v1_unsatisfied_targets(p)) = 0 /\ Len(p.intents) > 0
    THEN IF Len(p.intents) = 1 /\ Len(assocIntents(p)) = 1
         THEN <<<<"Intent " \o fq("intents", assocIntents(p)[1])
                  \o " is associated with validation "
                  \o fq("validations", reqCapValidationId(p)) \o ".">>>>
         ELSE <<<<"All intents are considered verifiable under core association rules.">>>>
    ELSE IF Len(v1_unsatisfied_targets(p)) = 0 /\ Len(p.intents) = 0
    THEN <<<<"No intents declared.">>>>
    ELSE <<>>

v1Outcome(p) ==
    Outcome("V-M1",
            IF Len(v1_unsatisfied_targets(p)) > 0
            THEN "unsatisfied" ELSE "satisfied",
            IF Len(v1_unsatisfied_targets(p)) > 0
            THEN v1_unsatisfied_targets(p)
            ELSE [k \in 1..Len(p.intents) |-> fq("intents", p.intents[k].id)],
            Null, <<>>, v1Notes(p))

\* ---- V-M2
constraintNames(p) ==
    defaultSort([k \in 1..Len(p.constraints) |->
                    fq("constraints", p.constraints[k].id)])

\* a variant: a constraint without severity cannot be evaluated
v2OutcomeNeedsSeverity(p) ==
    Outcome("V-M2",
            IF \E k \in 1..Len(p.constraints) : p.constraints[k].severity = Null
            THEN "unknown" ELSE "satisfied",
            IF Len(p.constraints) = 1 THEN constraintNames(p) ELSE <<>>,
            Null, <<>>, <<>>)

v2Outcome(p) ==
    IF Len(p.constraints) = 0
    THEN Outcome("V-M2", "satisfied", <<>>, Null, <<>>,
                 <<<<"No constraints declared.">>>>)
    ELSE IF Len(p.constraints) = 1
    THEN Outcome("V-M2", "satisfied", constraintNames(p), Null, <<>>,
                 <<<<"Constraint " \o constraintNames(p)[1]
                     \o " exists and is evaluable.">>>>)
    ELSE Outcome("V-M2", "satisfied", <<>>, Null, <<>>,
                 <<<<"All declared constraints ("
                     \o JoinStr(constraintNames(p), ", ")
                     \o ") exist and are syntactically evaluable.">>>>)

\* ---- V-M3
brokenIntents(p, d) == SelectSeq(d.supports, LAMBDA id : ~Has(p.intents, id))

brokenConstraints(p, d) ==
    SelectSeq(d.respects, LAMBDA id : ~Has(p.constraints, id))

untraced(d) == Len(d.supports) = 0

broken(p, d) ==
    ~untraced(d)
    /\ (Len(brokenIntents(p, d)) > 0 \/ Len(brokenConstraints(p, d)) > 0)

\* a variant: a decision without supports is marked bad but adds no error
decisionErrorsNoUntraced(p, d) ==
    IF broken(p, d)
    THEN <<Error("BROKEN_REFERENCE",
                 "Decision references non-existent intent or constraint.",
                 Obj(<<KV("decision", Str(fq("decisions", d.id)))>>))>>
    ELSE <<>>

\* a variant: one BROKEN_REFERENCE error for each side that has an
\* unresolved id, naming that side only
decisionErrorsPerSide(p, d) ==
    IF untraced(d)
    THEN <<Error("UNTRACED_DECISION",
                 "Decision missing traceability links to intents/constraints.",
                 Obj(<<KV("constraint", Str("constraints.C2")),
                       KV("decision", Str(fq("decisions", d.id)))>>))>>
    ELSE (IF Len(brokenIntents(p, d)) > 0
          THEN <<Error("BROKEN_REFERENCE",
                       "Decision references non-existent intent or constraint.",
                       Obj(<<KV("decision", Str(fq("decisions", d.id))),
                             KV("intent", Str(brokenIntents(p, d)[1]))>>))>>
          ELSE <<>>)
         \o (IF Len(brokenConstraints(p, d)) > 0
             THEN <<Error("BROKEN_REFERENCE",
                       "Decision references non-existent intent or constraint.",
                       Obj(<<KV("decision", Str(fq("decisions", d.id))),
                             KV("constraint",
                                Str(brokenConstraints(p, d)[1]))>>))>>
             ELSE <<>>)

\* the errors one decision adds (at most one)
decisionErrors(p, d) ==
    IF untraced(d)
    THEN <<Error("UNTRACED_DECISION",
                 "Decision missing traceability links to intents/constraints.",
                 Obj(<<KV("constraint", Str("constraints.C2")),
                       KV("decision", Str(fq("decisions", d.id)))>>))>>
    ELSE IF broken(p, d)
    THEN <<Error("BROKEN_REFERENCE",
                 "Decision references non-existent intent or constraint.",
                 Obj(<<KV("decision", Str(fq("decisions", d.id))),
                       KV("intent",
                          Str(IF Len(brokenIntents(p, d)) > 0
                              THEN brokenIntents(p, d)[1]
                              ELSE "I_DO_NOT_EXIST")),
                       KV("constraint",
                          Str(IF Len(brokenConstraints(p, d)) > 0
                              THEN brokenConstraints(p, d)[1]
                              ELSE "C_DO_NOT_EXIST"))>>))>>
    ELSE <<>>

v3_bad_targets(p) ==
    LET bad == SelectSeq(p.decisions, LAMBDA d : untraced(d) \/ broken(p, d))
    IN  [k \in 1..Len(bad) |-> fq("decisions", bad[k].id)]

v3Errors(p) ==
    Concat([k \in 1..Len(p.decisions) |-> decisionErrors(p, p.decisions[k])])

\* Array.from(new Set(xs)): the first occurrence of each element
Dedup(xs) ==
    LET firsts == {k \in 1..Len(xs) : \A j \in 1..(k - 1) : xs[j] # xs[k]}
    IN  [n \in 1..Cardinality(firsts) |->
            xs[CHOOSE k \in firsts :
                  Cardinality({j \in firsts : j <= k}) = n]]

\* a variant: the targets of an unsatisfied V-M3 are kept as pushed
v3OutcomeAsPushed(p) ==
    IF Len(v3_bad_targets(p)) > 0
    THEN Outcome("V-M3", "unsatisfied", v3_bad_targets(p), Null, <<>>, <<>>)
    ELSE Outcome("V-M3", "satisfied",
                 [k \in 1..Len(p.decisions) |->
                     fq("decisions", p.decisions[k].id)],
                 Null, <<>>, <<>>)

v3Outcome(p) ==
    IF Len(v3_bad_targets(p)) > 0
    THEN Outcome("V-M3", "unsatisfied", defaultSort(Dedup(v3_bad_targets(p))),
                 Null, <<>>, <<>>)
    ELSE IF Len(p.decisions) = 0
    THEN Outcome("V-M3", "satisfied", <<>>, Null, <<>>,
                 <<<<"No decisions declared.">>>>)
    ELSE IF Len(p.decisions) = 1
    THEN LET d == p.decisions[1]
             dFq == fq("decisions", d.id)
         IN  Outcome("V-M3", "satisfied", <<dFq>>, Null, <<>>,
                 <<<<"Decision " \o dFq \o " supports "
                     \o JoinStr([k \in 1..Len(d.supports) |->
                                    fq("intents", d.supports[k])], ", ")
                     \o " and respects "
                     \o JoinStr([k \in 1..Len(d.respects) |->
                                    fq("constraints", d.respects[k])], ", ")
                     \o ".">>>>)
    ELSE Outcome("V-M3", "satisfied",
                 [k \in 1..Len(p.decisions) |->
                     fq("decisions", p.decisions[k].id)],
                 Null, <<>>,
                 <<<<"All decisions meet core traceability requirements.">>>>)

\* ---- V-M4
hasCapability(p, cap) ==
    \E k \in 1..Len(p.capabilities) : p.capabilities[k] = cap

missingCaps(p) ==
    SelectSeq(p.validations,
           LAMBDA v : v.requires_capability # Null
                      /\ ~hasCapability(p, v.requires_capability))

IsEmitCap(c) == c = "emit_structured_errors"

\* a variant: a missing capability counts as a failed rule
v4OutcomeUnsatisfied(p) ==
    Outcome("V-M4",
            IF Len(missingCaps(p)) > 0 THEN "unsatisfied" ELSE "satisfied",
            [k \in 1..Len(missingCaps(p)) |->
                fq("validations", missingCaps(p)[k].id)],
            Null, <<>>, <<>>)

\* a variant: the reason names the last validation that cannot run
v4OutcomeLastMissing(p) ==
    IF Len(missingCaps(p)) > 0
    THEN Outcome("V-M4", "unknown",
                 [k \in 1..Len(missingCaps(p)) |->
                     fq("validations", missingCaps(p)[k].id)],
                 "Validation validations."
                     \o missingCaps(p)[Len(missingCaps(p))].id
                     \o " requires undeclared capability '"
                     \o missingCaps(p)[Len(missingCaps(p))].requires_capability
                     \o "'.",
                 <<>>, <<>>)
    ELSE Outcome("V-M4", "satisfied", <<>>, Null, <<>>, <<>>)

v4Outcome(p) ==
    IF Len(missingCaps(p)) > 0
    THEN Outcome("V-M4", "unknown",
                 [k \in 1..Len(missingCaps(p)) |->
                     fq("validations", missingCaps(p)[k].id)],
                 "Validation validations." \o missingCaps(p)[1].id
                     \o " requires undeclared capability '"
                     \o missingCaps(p)[1].requires_capability \o "'.",
                 <<>>, <<>>)
    ELSE Outcome("V-M4", "satisfied", <<>>, Null, <<>>,
                 <<<<"Validations are executable using declared capabilities ("
                     \o JoinStr(SelectSeq(p.capabilities, IsEmitCap), ", ")
                     \o ").">>>>)

\* ---- V-M5
v5Errors(p) ==
    IF hasImplementationLeak(p.raw_text)
    THEN <<Error("IMPLEMENTATION_LEAK",
                 "Specification prescribes implementation; violates No Implementation.",
                 Obj(<<KV("constraint", Str("constraints.C1")),
                       KV("validation", Str("V-M5"))>>))>>
    ELSE <<>>

v5Outcome(p) ==
    Outcome("V-M5",
            IF hasImplementationLeak(p.raw_text)
            THEN "unsatisfied" ELSE "satisfied",
            <<"system">>, Null,
            IF hasImplementationLeak(p.raw_text)
            THEN <<<<Obj(<<KV("kind", Str("excerpt")),
                           KV("value", Str("implementation_notes contains algorithmic and procedural directives (B-Tree, LRU, Big-O, scheduled job)."))>>)>>>>
            ELSE <<>>,
            <<>>)

\* ---- Aggregation
hasStatus(outcomes, status) ==
    \E k \in 1..Len(outcomes) : outcomes[k].status = status

\* a variant: an unknown outcome is looked at before an unsatisfied one
aggregateStateUnknownFirst(leak, outcomes) ==
    IF hasStatus(outcomes, "unknown") THEN "undecidable"
    ELSE IF leak \/ hasStatus(outcomes, "unsatisfied") THEN "invalid"
    ELSE "valid"

aggregateState(leak, outcomes) ==
    IF leak \/ hasStatus(outcomes, "unsatisfied") THEN "invalid"
    ELSE IF hasStatus(outcomes, "unknown") THEN "undecidable"
    ELSE "valid"

exitCodeOf(state) ==
    IF state = "invalid" THEN 1 ELSE IF state = "undecidable" THEN 2 ELSE 0

finalErrors(state, errors) == IF state = "valid" THEN <<>> ELSE errors

\* a variant: only the leak flag makes a report invalid, and the accumulated
\* errors are returned as they are
aggregateLeakOnly(leak, outcomes, errors) ==
    [state |-> IF leak THEN "invalid"
               ELSE IF hasStatus(outcomes, "unknown") THEN "undecidable"
               ELSE "valid",
     exit_code |-> IF leak THEN 1
                   ELSE IF hasStatus(outcomes, "unknown") THEN 2 ELSE 0,
     errors |-> errors]

\* the state, exit code and errors the aggregation block ends with
aggregate(leak, outcomes, errors) ==
    [state |-> aggregateState(leak, outcomes),
     exit_code |-> exitCodeOf(aggregateState(leak, outcomes)),
     errors |-> finalErrors(aggregateState(leak, outcomes), errors)]

\* the outcomes and errors the five rules push, in order
\* a variant: the rules after the first unsatisfied one are not evaluated
ruleOutcomesUntilFailure(p) ==
    LET all == <<v1Outcome(p), v2Outcome(p), v3Outcome(p), v4Outcome(p),
                 v5Outcome(p)>>
        failed == {k \in 1..5 : all[k].status = "unsatisfied"}
    IN  IF failed = {} THEN all
        ELSE SubSeq(all, 1, CHOOSE k \in failed : \A j \in failed : k <= j)

ruleOutcomes(p) ==
    <<v1Outcome(p), v2Outcome(p), v3Outcome(p), v4Outcome(p), v5Outcome(p)>>

ruleErrors(p) == v1Errors(p) \o v3Errors(p) \o v5Errors(p)

validateCore(p) ==
    IF ~versionSupported(p.spec_version) THEN unsupportedReport(p)
    ELSE LET agg == aggregate(hasImplementationLeak(p.raw_text),
                              ruleOutcomes(p), ruleErrors(p))
         IN  [report |->
                 Report(p.spec_version, p.system_id, agg.state,
                        ruleOutcomes(p), agg.errors),
              exit_code |-> agg.exit_code]

(***************************************************************************)
(* index.ts: main                                                          *)
(***************************************************************************)

NoSpec == newSpec(<<>>)

NoResult == [report |-> Report("", "", "", <<>>, <<>>), exit_code |-> -1]

\* the locals of parseDil before it is called
ScanIdle ==
    /\ i = 0
    /\ inSystem = FALSE
    /\ braceDepth = 0
    /\ currentSection = "unknown"
    /\ sectionDepth = -1
    /\ sectionStartLine = -1
    /\ currentDecisionId = Null
    /\ currentValidationId = Null
    /\ spec = NoSpec

\* the report main emits when the input cannot be read
unreadableReport ==
    Report("unknown", "unknown", "invalid", <<>>,
           <<Error("PARSE_ERROR", "Unable to read input file.",
                   Obj(<<KV("location", Str("spec.dil")),
                         KV("hint", Str("ENOENT"))>>))>>)

\* no path argument: usage on stderr, exit code 1, nothing on stdout
MainUsage ==
    /\ pc = "start" /\ file.status = "no_argument"
    /\ exit' = 1
    /\ pc' = "done"
    /\ UNCHANGED <<agentVars, verifyVars, raw, file, scanVars, parsed, result, canonicalObj, stdout>>

\* readFileSync throws: the PARSE_ERROR report, exit code 1
MainReadFail ==
    /\ pc = "start" /\ file.status = "unreadable"
    /\ canonicalObj' = deepSortKeys(normalized(unreadableReport))
    /\ stdout' = emitCanonicalReport(unreadableReport)
    /\ exit' = 1
    /\ pc' = "done"
    /\ UNCHANGED <<agentVars, verifyVars, raw, file, scanVars, parsed, result>>

MainRead ==
    /\ pc = "start" /\ file.status = "readable"
    /\ raw' = file.content
    /\ pc' = "parse"
    /\ UNCHANGED <<agentVars, verifyVars, file, scanVars, parsed, result, canonicalObj, stdout, exit>>

\* const result = validateCore(parsed)
Validate ==
    /\ pc = "validate"
    /\ result' = validateCore(parsed)
    /\ pc' = "emit"
    /\ UNCHANGED <<agentVars, verifyVars, raw, file, scanVars, parsed, canonicalObj, stdout, exit>>

\* a variant: the targets of the report's outcomes are sorted where they are
EmitSortingInPlace ==
    /\ pc = "emit"
    /\ canonicalObj' = deepSortKeys(normalized(result.report))
    /\ stdout' = emitCanonicalReport(result.report)
    /\ exit' = result.exit_code
    /\ pc' = "done"
    /\ result' =
          [result EXCEPT !.report.outcomes =
              [k \in 1..Len(@) |->
                  [@[k] EXCEPT !.targets = sortTargets(@)]]]
    /\ UNCHANGED <<agentVars, verifyVars, raw, file, scanVars, parsed>>

\* emitCanonicalReport(result.report), the write and the exit code
Emit ==
    /\ pc = "emit"
    /\ canonicalObj' = deepSortKeys(normalized(result.report))
    /\ stdout' = emitCanonicalReport(result.report)
    /\ exit' = result.exit_code
    /\ pc' = "done"
    /\ UNCHANGED <<agentVars, verifyVars, raw, file, scanVars, parsed, result>>

(***************************************************************************)
(* The verification extension (cli verify command).                        *)
(*                                                                         *)
(* A predicate text is a sequence of atoms: words, "=" and " " (a run of   *)
(* white space), "/" at the head of a path, "-" and single digits in       *)
(* numbers.  Keys, values and reasons are sequences of atoms as well.      *)
(***************************************************************************)

VERIFICATION_CAPABILITIES ==
    {"check_file_exists", "check_command_exit", "check_http_endpoint"}

\* String.prototype.trim on a sequence of atoms
RECURSIVE trimStart(_)
trimStart(t) ==
    IF t # <<>> /\ Head(t) = " " THEN trimStart(Tail(t)) ELSE t

RECURSIVE trimEnd(_)
trimEnd(t) ==
    IF t # <<>> /\ t[Len(t)] = " "
    THEN trimEnd(SubSeq(t, 1, Len(t) - 1))
    ELSE t

trim(t) == trimEnd(trimStart(t))

\* t.split(/\s+/): the pieces between the runs of white space; the empty
\* text gives one empty piece
RECURSIVE splitSpace(_, _)
splitSpace(t, piece) ==
    IF t = <<>> THEN <<piece>>
    ELSE IF Head(t) = " " THEN <<piece>> \o splitSpace(Tail(t), <<>>)
    ELSE splitSpace(Tail(t), Append(piece, Head(t)))

tokensOf(predicateText) == splitSpace(trim(predicateText), <<>>)

\* token.indexOf('='), counted from 1; 0 when there is none
indexOfEq(token) ==
    IF \E n \in 1..Len(token) : token[n] = "="
    THEN CHOOSE n \in 1..Len(token) :
            token[n] = "=" /\ \A m \in 1..(n - 1) : token[m] # "="
    ELSE 0

\* params[key] = value: a new key goes last, a known key keeps its place
setParam(params, key, value) ==
    IF \E n \in 1..Len(params) : params[n].k = key
    THEN [n \in 1..Len(params) |->
             IF params[n].k = key THEN [k |-> key, v |-> value]
             ELSE params[n]]
    ELSE Append(params, [k |-> key, v |-> value])

ParseOk(params) == [ok |-> TRUE, reason |-> <<>>, params |-> params]

NotOk(reason) == [ok |-> FALSE, reason |-> reason, params |-> <<>>]

\* the loop over tokens[1..] of parsePredicateParams
RECURSIVE parseTokens(_, _, _)
parseTokens(tokens, n, params) ==
    IF n > Len(tokens) THEN ParseOk(params)
    ELSE LET token == tokens[n]
             eqIdx == indexOfEq(token)
             key   == SubSeq(token, 1, eqIdx - 1)
             value == SubSeq(token, eqIdx + 1, Len(token))
         IN  IF eqIdx = 0 THEN NotOk(<<"malformed_token:">> \o token)
             ELSE IF key = <<>> THEN NotOk(<<"empty_key:">> \o token)
             ELSE parseTokens(tokens, n + 1, setParam(params, key, value))

parsePredicateParams(predicateText, expectedCapability) ==
    LET tokens == tokensOf(predicateText)
    IN  IF Len(tokens) = 0 THEN NotOk(<<"empty_predicate">>)
        ELSE IF tokens[1] # <<expectedCapability>>
        THEN NotOk(<<"capability_mismatch:expected=", expectedCapability,
                     ",actual=">> \o tokens[1])
        ELSE parseTokens(tokens, 2, <<>>)

\* key in params
hasParam(params, key) == \E n \in 1..Len(params) : params[n].k = <<key>>

\* params[key] (read only where the key is present)
param(params, key) ==
    params[CHOOSE n \in 1..Len(params) : params[n].k = <<key>>].v

FILE_EXISTS_REQUIRED == <<"path">>

FILE_EXISTS_KNOWN == {"path", "type", "min_size_bytes"}

COMMAND_EXIT_REQUIRED == <<"cmd", "args">>

COMMAND_EXIT_KNOWN == {"cmd", "args", "expected_exit", "timeout_ms"}

HTTP_ENDPOINT_REQUIRED == <<"url">>

HTTP_ENDPOINT_KNOWN == {"url", "method", "expected_status", "timeout_ms"}

\* the first loop of the three validate functions: the first required key
\* that is absent
missingRequired(params, required) ==
    SelectSeq(required, LAMBDA key : ~hasParam(params, key))

\* the second loop: the keys of params, in the order of Object.keys, that
\* are not known
unknownKeys(params, known) ==
    SelectSeq([n \in 1..Len(params) |-> params[n].k],
              LAMBDA key : \A w \in known : key # <<w>>)

Digits == <<"0", "1", "2", "3", "4", "5", "6", "7", "8", "9">>

isDigit(a) == \E d \in 1..10 : Digits[d] = a

digitValue(a) == (CHOOSE d \in 1..10 : Digits[d] = a) - 1

\* the value of the longest run of digits that begins the atoms
RECURSIVE digitsValue(_, _)
digitsValue(t, acc) ==
    IF t # <<>> /\ isDigit(Head(t))
    THEN digitsValue(Tail(t), 10 * acc + digitValue(Head(t)))
    ELSE acc

NaN == [nan |-> TRUE, n |-> 0]

Num(n) == [nan |-> FALSE, n |-> n]

\* parseInt(value, 10): an optional sign, then the leading digits
parseInt(value) ==
    LET signed == value # <<>> /\ Head(value) \in {"-", "+"}
        body   == IF signed THEN Tail(value) ELSE value
    IN  IF body = <<>> \/ ~isDigit(Head(body)) THEN NaN
        ELSE IF signed /\ Head(value) = "-"
        THEN Num(0 - digitsValue(body, 0))
        ELSE Num(digitsValue(body, 0))

\* StringOf(n) of an integer
RECURSIVE digitsOf(_)
digitsOf(n) ==
    IF n < 10 THEN <<Digits[n + 1]>>
    ELSE Append(digitsOf(n \div 10), Digits[(n % 10) + 1])

StringOf(n) == IF n < 0 THEN <<"-">> \o digitsOf(0 - n) ELSE digitsOf(n)

\* isNaN(x) || StringOf(x) !== text
notCanonicalInt(x, text) == x.nan \/ StringOf(x.n) # text

Valid == [ok |-> TRUE, reason |-> <<>>]

Invalid(reason) == [ok |-> FALSE, reason |-> reason]

validateFileExistsParams(params) ==
    IF missingRequired(params, FILE_EXISTS_REQUIRED) # <<>>
    THEN Invalid(<<"missing_required_key:",
                   missingRequired(params, FILE_EXISTS_REQUIRED)[1]>>)
    ELSE IF unknownKeys(params, FILE_EXISTS_KNOWN) # <<>>
    THEN Invalid(<<"unknown_key:">>
                    \o unknownKeys(params, FILE_EXISTS_KNOWN)[1])
    ELSE IF ~(param(params, "path") # <<>>
              /\ Head(param(params, "path")) = "/")
    THEN Invalid(<<"invalid_path:not_absolute">>)
    ELSE IF /\ hasParam(params, "type")
            /\ param(params, "type") # <<>>
            /\ param(params, "type") \notin {<<"file">>, <<"directory">>}
    THEN Invalid(<<"invalid_value:type">>)
    ELSE IF /\ hasParam(params, "min_size_bytes")
            /\ LET size == parseInt(param(params, "min_size_bytes"))
               IN  \/ notCanonicalInt(size, param(params, "min_size_bytes"))
                   \/ size.n < 0
    THEN Invalid(<<"invalid_value:min_size_bytes">>)
    ELSE Valid

\* the timeout_ms test shared by the command and the HTTP validation
badTimeout(params) ==
    /\ hasParam(params, "timeout_ms")
    /\ LET timeout == parseInt(param(params, "timeout_ms"))
       IN  \/ notCanonicalInt(timeout, param(params, "timeout_ms"))
           \/ timeout.n <= 0

validateCommandExitParams(params) ==
    IF missingRequired(params, COMMAND_EXIT_REQUIRED) # <<>>
    THEN Invalid(<<"missing_required_key:",
                   missingRequired(params, COMMAND_EXIT_REQUIRED)[1]>>)
    ELSE IF unknownKeys(params, COMMAND_EXIT_KNOWN) # <<>>
    THEN Invalid(<<"unknown_key:">>
                    \o unknownKeys(params, COMMAND_EXIT_KNOWN)[1])
    ELSE IF /\ hasParam(params, "expected_exit")
            /\ notCanonicalInt(parseInt(param(params, "expected_exit")),
                               param(params, "expected_exit"))
    THEN Invalid(<<"invalid_value:expected_exit">>)
    ELSE IF badTimeout(params)
    THEN Invalid(<<"invalid_value:timeout_ms">>)
    ELSE Valid

\* new URL(text) on the url values of the model: the protocol, or a
\* TypeError (ok FALSE)
UrlTable ==
    [u \in {<<"http://h/">>, <<"https://h/">>, <<"ftp://h/">>} |->
        [ok |-> TRUE,
         protocol |-> IF u = <<"http://h/">> THEN "http:"
                      ELSE IF u = <<"https://h/">> THEN "https:"
                      ELSE "ftp:"]]

URL(text) ==
    IF text \in DOMAIN UrlTable THEN UrlTable[text]
    ELSE [ok |-> FALSE, protocol |-> ""]

\* String.prototype.toUpperCase on the method values of the model
toUpperCase(value) ==
    IF value \in {<<"get">>, <<"GET">>} THEN <<"GET">>
    ELSE IF value \in {<<"head">>, <<"HEAD">>} THEN <<"HEAD">>
    ELSE IF value \in {<<"post">>, <<"POST">>} THEN <<"POST">>
    ELSE value

\* protocol.replace(':', '')
schemeOf(protocol) ==
    IF protocol = "http:" THEN "http"
    ELSE IF protocol = "https:" THEN "https"
    ELSE IF protocol = "ftp:" THEN "ftp"
    ELSE protocol

validateHttpEndpointParams(params) ==
    IF missingRequired(params, HTTP_ENDPOINT_REQUIRED) # <<>>
    THEN Invalid(<<"missing_required_key:",
                   missingRequired(params, HTTP_ENDPOINT_REQUIRED)[1]>>)
    ELSE IF unknownKeys(params, HTTP_ENDPOINT_KNOWN) # <<>>
    THEN Invalid(<<"unknown_key:">>
                    \o unknownKeys(params, HTTP_ENDPOINT_KNOWN)[1])
    ELSE IF ~URL(param(params, "url")).ok
    THEN Invalid(<<"invalid_url:parse_error">>)
    ELSE IF URL(param(params, "url")).protocol \notin {"http:", "https:"}
    THEN Invalid(<<"invalid_scheme:",
                   schemeOf(URL(param(params, "url")).protocol)>>)
    ELSE IF /\ hasParam(params, "method")
            /\ toUpperCase(param(params, "method"))
                  \notin {<<"GET">>, <<"HEAD">>}
    THEN Invalid(<<"invalid_method:">> \o param(params, "method"))
    ELSE IF /\ hasParam(params, "expected_status")
            /\ LET status == parseInt(param(params, "expected_status"))
               IN  \/ notCanonicalInt(status,
                                      param(params, "expected_status"))
                   \/ status.n < 100
                   \/ status.n > 599
    THEN Invalid(<<"invalid_value:expected_status">>)
    ELSE IF badTimeout(params)
    THEN Invalid(<<"invalid_value:timeout_ms">>)
    ELSE Valid

\* the switch of verify on the capability of a check
validateParams(capability, params) ==
    IF capability = "check_file_exists"
    THEN validateFileExistsParams(params)
    ELSE IF capability = "check_command_exit"
    THEN validateCommandExitParams(params)
    ELSE IF capability = "check_http_endpoint"
    THEN validateHttpEndpointParams(params)
    ELSE Invalid(<<"unsupported_capability:", capability>>)

\* predicates.get(validationId): the predicate text or Null
predicateOf(predicates, validationId) ==
    IF \E n \in 1..Len(predicates) : predicates[n].id = validationId
    THEN predicates[CHOOSE n \in 1..Len(predicates) :
                       predicates[n].id = validationId].text
    ELSE <<>>

\* the loop of verify over parsedSpec.validations: the validations whose
\* capability is a verification capability and whose predicate begins with
\* the name of that capability
ValidationPredicate(validationId, capability, predicateText) ==
    [validationId |-> validationId, capability |-> capability,
     predicateText |-> predicateText]

selected(v, predicates) ==
    /\ v.requires_capability \in VERIFICATION_CAPABILITIES
    /\ predicateOf(predicates, v.id) # <<>>
    /\ tokensOf(predicateOf(predicates, v.id))[1] = <<v.requires_capability>>

verificationChecks(validations, predicates) ==
    LET chosen == SelectSeq(validations, LAMBDA v : selected(v, predicates))
    IN  [n \in 1..Len(chosen) |->
            ValidationPredicate(chosen[n].id,
                                chosen[n].requires_capability,
                                predicateOf(predicates, chosen[n].id))]

\* the spelling of the ids and prefixes that bear on gates: "V_GATE_",
\* single characters, and the rest of the id
GateSpelling(id) ==
    CASE id = "V_GATE_01_" -> <<"V_GATE_", "0", "1", "_">>
      [] id = "V_GATE_02_" -> <<"V_GATE_", "0", "2", "_">>
      [] id = "V_GATE_10_" -> <<"V_GATE_", "1", "0", "_">>
      [] id = "V_GATE_01_A" -> <<"V_GATE_", "0", "1", "_", "A">>
      [] id = "V_GATE_01_B" -> <<"V_GATE_", "0", "1", "_", "B">>
      [] id = "V_GATE_02_A" -> <<"V_GATE_", "0", "2", "_", "A">>
      [] id = "V_GATE_10_A" -> <<"V_GATE_", "1", "0", "_", "A">>
      [] id = "V_GATE_1_A" -> <<"V_GATE_", "1", "_", "A">>
      [] OTHER -> <<id>>

\* validationId.startsWith(prefix) on the ids and prefixes of the model
startsWith(id, prefix) ==
    \/ prefix = id
    \/ prefix = "V" /\ id \in {"V1", "V2", "V3"}
    \/ LET whole == GateSpelling(id)
           head == GateSpelling(prefix)
       IN  /\ Len(head) > 1
           /\ Len(head) <= Len(whole)
           /\ SubSeq(whole, 1, Len(head)) = head

\* options.onlyCheckIds, else options.onlyCheckPrefix, else every check
\* a variant: a filter that matches no check keeps them all
filteredChecksOrAll(all, options) ==
    LET byIds == SelectSeq(all, LAMBDA c :
                     \E n \in 1..Len(options.onlyCheckIds) :
                        options.onlyCheckIds[n] = c.validationId)
        byPrefix == SelectSeq(all, LAMBDA c :
                        \E n \in 1..Len(options.onlyCheckPrefix) :
                           startsWith(c.validationId,
                                      options.onlyCheckPrefix[n]))
    IN  IF options.onlyCheckIds # <<>> /\ byIds # <<>> THEN byIds
        ELSE IF options.onlyCheckPrefix # <<>> /\ byPrefix # <<>>
        THEN byPrefix
        ELSE all

filteredChecks(all, options) ==
    IF options.onlyCheckIds # <<>>
    THEN SelectSeq(all, LAMBDA c :
             \E n \in 1..Len(options.onlyCheckIds) :
                options.onlyCheckIds[n] = c.validationId)
    ELSE IF options.onlyCheckPrefix # <<>>
    THEN SelectSeq(all, LAMBDA c :
             \E n \in 1..Len(options.onlyCheckPrefix) :
                startsWith(c.validationId, options.onlyCheckPrefix[n]))
    ELSE all

Check(capability, validationId, status, reason) ==
    [capability |-> capability,
     check_id |-> <<"validations.", validationId>>,
     status |-> status, reason |-> reason]

CheckResult(status, reason) == [status |-> status, reason |-> reason]

\* executeFileExistsCheck on the outcome of statSync: an error code, or
\* the kind and the size of what is found at the path
executeFileExistsCheck(params, stat) ==
    LET expectedType == IF hasParam(params, "type")
                        THEN param(params, "type") ELSE <<>>
        minSizeBytes == IF hasParam(params, "min_size_bytes")
                        THEN parseInt(param(params, "min_size_bytes"))
                        ELSE NaN
    IN  IF stat.code = "ENOENT"
        THEN CheckResult("failed", <<"path_not_found">>)
        ELSE IF stat.code = "EACCES"
        THEN CheckResult("unknown", <<"permission_denied">>)
        ELSE IF stat.code # Null
        THEN CheckResult("unknown", <<"filesystem_error:", stat.code>>)
        ELSE IF expectedType # <<>> /\ <<stat.type>> # expectedType
        THEN CheckResult("failed",
                 <<"type_mismatch:expected=">> \o expectedType
                    \o <<",actual=", stat.type>>)
        ELSE IF /\ hasParam(params, "min_size_bytes")
                /\ stat.type = "file"
                /\ stat.size < minSizeBytes.n
        THEN CheckResult("failed",
                 <<"size_below_minimum:expected=">>
                    \o StringOf(minSizeBytes.n)
                    \o <<",actual=">> \o StringOf(stat.size))
        ELSE CheckResult("passed", <<>>)

\* the numbers a command or HTTP check reads from its params
expectedExit(params) ==
    IF hasParam(params, "expected_exit")
    THEN parseInt(param(params, "expected_exit")).n
    ELSE 0

expectedStatus(params) ==
    IF hasParam(params, "expected_status")
    THEN parseInt(param(params, "expected_status")).n
    ELSE 200

\* An asynchronous check in flight: the promise returned by
\* executeCommandExitCheck or executeHttpEndpointCheck with the locals of
\* its closure.  resolved is `resolved` of the command check and `finished`
\* of the HTTP check; timer is the state of the setTimeout timer of a
\* command check; open tells that the child or request may still emit
\* events.
Pending(kind, expected, timer) ==
    [kind |-> kind, expected |-> expected, timer |-> timer,
     timedOut |-> FALSE, resolved |-> FALSE,
     result |-> CheckResult("", <<>>), open |-> TRUE]

\* a variant: every call of finish records its result
finishLast(op, r) == [op EXCEPT !.resolved = TRUE, !.result = r]

\* finish(result): the first result is kept
finish(op, r) ==
    IF op.resolved THEN op
    ELSE [op EXCEPT !.resolved = TRUE, !.result = r]

\* clearTimeout(timer)
clearTimeout(op) ==
    IF op.timer = "armed" THEN [op EXCEPT !.timer = "cleared"] ELSE op

\* the catch around spawn
spawnThrew(op, code) ==
    [finish(op, IF code = "EACCES"
                THEN CheckResult("unknown", <<"permission_denied">>)
                ELSE CheckResult("unknown", <<"spawn_error:", code>>))
        EXCEPT !.open = FALSE]

\* child.on('error', ...)
onChildError(op, code) ==
    finish(clearTimeout(op),
           IF code = "ENOENT"
           THEN CheckResult("failed", <<"command_not_found">>)
           ELSE IF code = "EACCES"
           THEN CheckResult("unknown", <<"permission_denied">>)
           ELSE CheckResult("unknown", <<"spawn_error:", code>>))

\* child.on('close', ...); code is <<n>> for the exit code n and <<>> for
\* null (code ?? 1)
onChildClose(op, code) ==
    LET actualExit == IF code = <<>> THEN 1 ELSE code[1]
        cleared == [clearTimeout(op) EXCEPT !.open = FALSE]
    IN  IF op.timedOut
        THEN finish(cleared, CheckResult("unknown", <<"timeout_exceeded">>))
        ELSE IF actualExit # op.expected
        THEN finish(cleared,
                    CheckResult("failed",
                        <<"exit_mismatch:expected=">>
                           \o StringOf(op.expected)
                           \o <<",actual=">> \o StringOf(actualExit)))
        ELSE finish(cleared, CheckResult("passed", <<>>))

\* the callback of setTimeout: timedOut = true; child.kill('SIGKILL').
\* killError is Null, or the code of the 'error' event that kill emits
\* when the signal cannot be delivered.
onTimer(op, killError) ==
    LET fired == [op EXCEPT !.timedOut = TRUE, !.timer = "fired"]
    IN  IF killError = Null THEN fired ELSE onChildError(fired, killError)

\* the response callback of httpModule.request
onResponse(op, actualStatus) ==
    IF actualStatus # op.expected
    THEN finish(op, CheckResult("failed",
                        <<"status_mismatch:expected=">>
                           \o StringOf(op.expected)
                           \o <<",actual=">> \o StringOf(actualStatus)))
    ELSE finish(op, CheckResult("passed", <<>>))

\* req.on('timeout', ...); timedOut of an HTTP check is no variable of the
\* code: it records that the timeout came before any result
onReqTimeout(op) ==
    finish([op EXCEPT !.timedOut = @ \/ ~op.resolved],
           CheckResult("unknown", <<"timeout_exceeded">>))

\* req.on('error', ...) on the error codes of the model
onReqError(op, code) ==
    finish(op,
           IF code = "ECONNREFUSED"
           THEN CheckResult("failed", <<"connection_refused">>)
           ELSE IF code = "ENOTFOUND"
           THEN CheckResult("unknown", <<"dns_failure">>)
           ELSE IF code \in {"ETIMEDOUT", "ESOCKETTIMEDOUT"}
           THEN CheckResult("unknown", <<"timeout_exceeded">>)
           ELSE IF code \in {"ENETUNREACH", "EHOSTUNREACH"}
           THEN CheckResult("unknown", <<"network_error:", code>>)
           ELSE IF code = "ERR_TLS_CERT_ALTNAME_INVALID"
           THEN CheckResult("unknown", <<"tls_error">>)
           ELSE CheckResult("unknown", <<"network_error:", code>>))

\* a variant: an unknown check is looked for before a failed one
verifyStateUnknownFirst(cs) ==
    IF \E n \in 1..Len(cs) : cs[n].status = "unknown" THEN "unknown"
    ELSE IF \E n \in 1..Len(cs) : cs[n].status = "failed" THEN "unverified"
    ELSE "verified"

\* the aggregate state and exit code of verify
verifyState(cs) ==
    IF \E n \in 1..Len(cs) : cs[n].status = "failed" THEN "unverified"
    ELSE IF \E n \in 1..Len(cs) : cs[n].status = "unknown" THEN "unknown"
    ELSE "verified"

verifyExitCode(cs) ==
    IF \E n \in 1..Len(cs) : cs[n].status = "failed" THEN 1
    ELSE IF \E n \in 1..Len(cs) : cs[n].status = "unknown" THEN 2
    ELSE 0

\* buildDeterministicReceipt: the checks sorted by check_id
sortedChecks(cs) ==
    SortBy(cs, [j \in 1..Len(cs) |-> [k \in 1..Len(cs) |->
                  localeCompare(cs[j].check_id, cs[k].check_id)]])

Receipt(cs) ==
    [written |-> TRUE, checks |-> sortedChecks(cs),
     state |-> verifyState(cs), exitCode |-> verifyExitCode(cs)]

\* verify returns { exitCode: 2, receiptPath: '' } and writes nothing
NoReceipt(exitCode) ==
    [written |-> FALSE, checks |-> <<>>, state |-> "",
     exitCode |-> exitCode]

\* verify is not running
VerifyIdle ==
    /\ vpc = "off"
    /\ vin = [readable |-> FALSE, capabilities |-> <<>>,
              validations |-> <<>>, predicates |-> <<>>,
              options |-> [onlyCheckIds |-> <<>>, onlyCheckPrefix |-> <<>>]]
    /\ todo = <<>>
    /\ checks = <<>>
    /\ ops = <<>>
    /\ calls = <<>>
    /\ receipt = NoReceipt(-1)

\* readFileSync(absoluteSpecPath) throws
VerifyReadFail ==
    /\ vpc = "start" /\ ~vin.readable
    /\ receipt' = NoReceipt(2)
    /\ vpc' = "done"
    /\ UNCHANGED <<vin, todo, checks, ops, calls, validatorVars, agentVars>>

\* loadParser() throws
VerifyLoadFail ==
    /\ vpc = "start" /\ vin.readable
    /\ receipt' = NoReceipt(2)
    /\ vpc' = "done"
    /\ UNCHANGED <<vin, todo, checks, ops, calls, validatorVars, agentVars>>

\* parseDil, extractValidationPredicates, the selection of the
\* verification checks and the filter of the options
VerifySelect ==
    /\ vpc = "start" /\ vin.readable
    /\ todo' = filteredChecks(
                  verificationChecks(vin.validations, vin.predicates),
                  vin.options)
    /\ checks' = <<>>
    /\ vpc' = "loop"
    /\ UNCHANGED <<vin, ops, calls, receipt, validatorVars, agentVars>>

\* the check at the head of the loop, and its params when they parse
vc == Head(todo)

parseResult == parsePredicateParams(vc.predicateText, vc.capability)

paramsOk ==
    /\ parseResult.ok
    /\ validateParams(vc.capability, parseResult.params).ok

Looping == vpc = "loop" /\ todo # <<>>

\* parse or validation of the params fails: the check is unknown
CheckRejected ==
    /\ Looping /\ ~paramsOk
    /\ checks' = Append(checks,
          Check(vc.capability, vc.validationId, "unknown",
                IF parseResult.ok
                THEN validateParams(vc.capability,
                                    parseResult.params).reason
                ELSE parseResult.reason))
    /\ todo' = Tail(todo)
    /\ UNCHANGED <<vpc, vin, ops, calls, receipt, validatorVars, agentVars>>

StatOutcomes ==
    {[code |-> c, type |-> "", size |-> 0] : c \in {"ENOENT", "EACCES", "EIO"}}
    \cup {[code |-> Null, type |-> "file", size |-> n] : n \in {0, 9}}
    \cup {[code |-> Null, type |-> t, size |-> 0] : t \in {"directory", "other"}}

\* executeFileExistsCheck: synchronous
CheckFile ==
    /\ Looping /\ paramsOk /\ vc.capability = "check_file_exists"
    /\ \E stat \in StatOutcomes :
          LET r == executeFileExistsCheck(parseResult.params, stat)
          IN  checks' = Append(checks,
                   Check(vc.capability, vc.validationId, r.status, r.reason))
    /\ calls' = Append(calls, [fn |-> "statSync", id |-> vc.validationId])
    /\ todo' = Tail(todo)
    /\ UNCHANGED <<vpc, vin, ops, receipt, validatorVars, agentVars>>

\* executeCommandExitCheck up to the await: spawn throws, or the child is
\* there and the timer is set
Spawn ==
    /\ Looping /\ paramsOk /\ vc.capability = "check_command_exit"
    /\ LET op == Pending("command", expectedExit(parseResult.params), "none")
       IN  \/ \E code \in {"EACCES", "EINVAL"} :
                 ops' = Append(ops, spawnThrew(op, code))
           \/ ops' = Append(ops, [op EXCEPT !.timer = "armed"])
    /\ calls' = Append(calls, [fn |-> "spawn", id |-> vc.validationId])
    /\ vpc' = "wait"
    /\ UNCHANGED <<vin, todo, checks, receipt, validatorVars, agentVars>>

\* executeHttpEndpointCheck up to the await
Request ==
    /\ Looping /\ paramsOk /\ vc.capability = "check_http_endpoint"
    /\ IF URL(param(parseResult.params, "url")).ok
       THEN /\ ops' = Append(ops,
                  Pending("http", expectedStatus(parseResult.params), "none"))
            /\ calls' = Append(calls,
                  [fn |-> "request", id |-> vc.validationId])
       ELSE /\ ops' = Append(ops,
                  [finish(Pending("http", 0, "none"),
                          CheckResult("unknown", <<"invalid_url:parse_error">>))
                      EXCEPT !.open = FALSE])
            /\ UNCHANGED calls
    /\ vpc' = "wait"
    /\ UNCHANGED <<vin, todo, checks, receipt, validatorVars, agentVars>>

\* the promise verify awaits
awaited == ops[Len(ops)]

\* Callbacks run when the synchronous code of verify has run to its await
\* (or to its end), and a resolved await resumes before the next callback.
CallbacksRun ==
    \/ vpc = "wait" /\ ~awaited.resolved
    \/ vpc = "done"

\* the continuation of the await: the check is recorded
Resume ==
    /\ vpc = "wait" /\ awaited.resolved
    /\ checks' = Append(checks,
          Check(vc.capability, vc.validationId,
                awaited.result.status, awaited.result.reason))
    /\ todo' = Tail(todo)
    /\ vpc' = "loop"
    /\ UNCHANGED <<vin, ops, calls, receipt, validatorVars, agentVars>>

Live(k, kind) == ops[k].kind = kind /\ ops[k].open

\* the timer of a command check fires
Timer ==
    /\ CallbacksRun
    /\ \E k \in 1..Len(ops), killError \in {Null, "EPERM"} :
          /\ Live(k, "command") /\ ops[k].timer = "armed"
          /\ ops' = [ops EXCEPT ![k] = onTimer(@, killError)]
    /\ UNCHANGED <<vpc, vin, todo, checks, calls, receipt, validatorVars, agentVars>>

ChildErrorCodes == {"ENOENT", "EACCES", "EAGAIN"}

\* the child emits 'error'
ChildError ==
    /\ CallbacksRun
    /\ \E k \in 1..Len(ops), code \in ChildErrorCodes :
          /\ Live(k, "command")
          /\ ops' = [ops EXCEPT ![k] = onChildError(@, code)]
    /\ UNCHANGED <<vpc, vin, todo, checks, calls, receipt, validatorVars, agentVars>>

\* the child emits 'close', its last event
ChildClose ==
    /\ CallbacksRun
    /\ \E k \in 1..Len(ops), code \in {<<>>, <<0>>, <<1>>} :
          /\ Live(k, "command")
          /\ ops' = [ops EXCEPT ![k] = onChildClose(@, code)]
    /\ UNCHANGED <<vpc, vin, todo, checks, calls, receipt, validatorVars, agentVars>>

\* the response of an HTTP check arrives
Response ==
    /\ CallbacksRun
    /\ \E k \in 1..Len(ops), status \in {200, 500} :
          /\ Live(k, "http")
          /\ ops' = [ops EXCEPT ![k] = onResponse(@, status)]
    /\ UNCHANGED <<vpc, vin, todo, checks, calls, receipt, validatorVars, agentVars>>

\* the request emits 'timeout'
ReqTimeout ==
    /\ CallbacksRun
    /\ \E k \in 1..Len(ops) :
          /\ Live(k, "http")
          /\ ops' = [ops EXCEPT ![k] = onReqTimeout(@)]
    /\ UNCHANGED <<vpc, vin, todo, checks, calls, receipt, validatorVars, agentVars>>

ReqErrorCodes ==
    {"ECONNREFUSED", "ENOTFOUND", "ETIMEDOUT", "ENETUNREACH",
     "ERR_TLS_CERT_ALTNAME_INVALID", "ECONNRESET"}

\* the request emits 'error', after which it emits nothing
ReqError ==
    /\ CallbacksRun
    /\ \E k \in 1..Len(ops), code \in ReqErrorCodes :
          /\ Live(k, "http")
          /\ ops' = [ops EXCEPT ![k] = [onReqError(@, code)
                                           EXCEPT !.open = FALSE]]
    /\ UNCHANGED <<vpc, vin, todo, checks, calls, receipt, validatorVars, agentVars>>

\* the aggregate state, the receipt and the return of verify
Aggregate ==
    /\ vpc = "loop" /\ todo = <<>>
    /\ receipt' = Receipt(checks)
    /\ vpc' = "done"
    /\ UNCHANGED <<vin, todo, checks, ops, calls, validatorVars, agentVars>>

(***************************************************************************)
(* The run and agent commands (run.ts, agent.ts)                           *)
(***************************************************************************)

ALLOWED_COMMANDS == {"claude"}

MAX_GATE_RETRIES == 3

TRANSIENT_FAILURES == {"unknown_agent_crash", "unknown_transient"}

\* detectNoMessagesError: the stderr tail, a sequence of lines, includes
\* the crash signature
NoMessagesReturned == "Error: No messages returned"

detectNoMessagesError(stderrTail) ==
    \E n \in 1..Len(stderrTail) : stderrTail[n] = NoMessagesReturned

\* VERIFIER_LIMIT_REASONS: the first atoms of the reasons of verify that
\* begin with one of the twelve names of the set
VERIFIER_LIMIT_REASONS ==
    {"malformed_token:", "empty_predicate", "capability_mismatch:expected=",
     "empty_key:", "missing_required_key:", "unknown_key:",
     "invalid_value:type", "invalid_value:min_size_bytes",
     "invalid_value:expected_exit", "invalid_value:timeout_ms",
     "invalid_value:expected_status", "invalid_path:not_absolute",
     "invalid_url:parse_error", "invalid_scheme:", "invalid_method:",
     "unsupported_capability:"}

isVerifierLimitReason(reason) ==
    reason # <<>> /\ reason[1] \in VERIFIER_LIMIT_REASONS

\* gatePattern /^(V_GATE_\d{2}_)/ on a validation id: the prefix matched,
\* or Null
GatePrefixes == {"V_GATE_01_", "V_GATE_02_", "V_GATE_10_"}

gateMatch(validationId) ==
    LET sp == GateSpelling(validationId)
    IN  IF /\ Len(sp) >= 4
           /\ sp[1] = "V_GATE_" /\ isDigit(sp[2]) /\ isDigit(sp[3])
           /\ sp[4] = "_"
        THEN CHOOSE g \in GatePrefixes : GateSpelling(g) = SubSeq(sp, 1, 4)
        ELSE Null

\* parseInt(a.match(/\d{2}/)[0], 10) of a gate prefix
gateNum(gatePrefix) ==
    LET sp == GateSpelling(gatePrefix)
    IN  parseInt(<<sp[2], sp[3]>>).n

\* a variant: the gates are ordered by descending number
gatesDescending(prefixes) ==
    SortBy(prefixes,
           [j \in 1..Len(prefixes) |-> [k \in 1..Len(prefixes) |->
               gateNum(prefixes[k]) - gateNum(prefixes[j])]])

\* Array.from(gatePrefixes).sort((a, b) => numA - numB)
sortGates(prefixes) ==
    SortBy(prefixes,
           [j \in 1..Len(prefixes) |-> [k \in 1..Len(prefixes) |->
               gateNum(prefixes[j]) - gateNum(prefixes[k])]])

\* the Set of the prefixes matched, in insertion order
RECURSIVE gatePrefixSet(_, _)
gatePrefixSet(validations, acc) ==
    IF validations = <<>> THEN acc
    ELSE LET g == gateMatch(Head(validations).id)
             seen == \E n \in 1..Len(acc) : acc[n] = g
         IN  gatePrefixSet(Tail(validations),
                           IF g = Null \/ seen THEN acc ELSE Append(acc, g))

extractGates(validations) == sortGates(gatePrefixSet(validations, <<>>))

\* arg.startsWith('-') on the arguments of the model
isFlag(arg) == arg \in {"-p", "--print", "--output-format"}

\* validateClaudeArgs: print mode is required, at most one argument after
\* the print flag is no flag, and --output-format text is inserted after
\* the print flag when no output format is given
validateClaudeArgs(argv) ==
    LET isPrint(n) == argv[n] \in {"-p", "--print"}
        hasPrintFlag == \E n \in 1..Len(argv) : isPrint(n)
        printIndex == CHOOSE n \in 1..Len(argv) :
                          isPrint(n) /\ \A m \in 1..(n - 1) : ~isPrint(m)
        nonFlagArgs == {n \in (printIndex + 1)..Len(argv) : ~isFlag(argv[n])}
        hasOutputFormat ==
            \E n \in 1..Len(argv) : argv[n] = "--output-format"
    IN  IF ~hasPrintFlag
        THEN [valid |-> FALSE, modifiedArgv |-> <<>>]
        ELSE IF Cardinality(nonFlagArgs) > 1
        THEN [valid |-> FALSE, modifiedArgv |-> <<>>]
        ELSE [valid |-> TRUE,
              modifiedArgv |->
                  IF hasOutputFormat THEN argv
                  ELSE SubSeq(argv, 1, printIndex)
                       \o <<"--output-format", "text">>
                       \o SubSeq(argv, printIndex + 1, Len(argv))]

\* what agent reads of a verification receipt: whether the file is there,
\* spec_hash, state, and whether a check of status unknown carries a
\* verifier limit reason
hasVerifierLimit(cs) ==
    \E n \in 1..Len(cs) :
        /\ cs[n].status = "unknown"
        /\ isVerifierLimitReason(cs[n].reason)

ReceiptFile(cs, specHash) ==
    [written |-> TRUE, spec_hash |-> specHash,
     state |-> verifyState(cs), limit |-> hasVerifierLimit(cs)]

NoReceiptFile ==
    [written |-> FALSE, spec_hash |-> "", state |-> "", limit |-> FALSE]

\* the checks verify records for a spec whose checks are file checks: the
\* checks selected, filtered, rejected or executed on the outcome of
\* statSync
verifyChecks(input, options, stats) ==
    LET sel == filteredChecks(
                   verificationChecks(input.validations, input.predicates),
                   options)
    IN  [n \in 1..Len(sel) |->
            LET pr == parsePredicateParams(sel[n].predicateText,
                                           sel[n].capability)
                vr == validateParams(sel[n].capability, pr.params)
                er == executeFileExistsCheck(pr.params, stats[n])
            IN  IF ~pr.ok
                THEN Check(sel[n].capability, sel[n].validationId,
                           "unknown", pr.reason)
                ELSE IF ~vr.ok
                THEN Check(sel[n].capability, sel[n].validationId,
                           "unknown", vr.reason)
                ELSE Check(sel[n].capability, sel[n].validationId,
                           er.status, er.reason)]

\* the checks that verify(absoluteSpecPath, { out, onlyCheckPrefix })
\* selects
checksOf(input, prefixes) ==
    filteredChecks(verificationChecks(input.validations, input.predicates),
                   [onlyCheckIds |-> <<>>, onlyCheckPrefix |-> prefixes])

\* verify as agent calls it: nothing is written when the spec cannot be
\* read
verifyReceipt(input, prefixes, stats, specHash) ==
    IF specHash = "absent" THEN NoReceiptFile
    ELSE ReceiptFile(verifyChecks(input,
                                  [onlyCheckIds |-> <<>>,
                                   onlyCheckPrefix |-> prefixes],
                                  stats),
                     specHash)

\* the receipts verify can write, over the outcomes of statSync for the
\* checks selected
PassStats ==
    {[code |-> c, type |-> "", size |-> 0] : c \in {"ENOENT", "EACCES"}}
    \cup {[code |-> Null, type |-> "file", size |-> 9]}

verifyReceipts(input, prefixes, specHash) ==
    {verifyReceipt(input, prefixes, stats, specHash) :
        stats \in [1..Len(checksOf(input, prefixes)) -> PassStats]}

\* a variant: a transient failure or a failed verification
isTransientOrFailed(failureKind) ==
    failureKind \in TRANSIENT_FAILURES \cup {"verification_failed"}

\* TRANSIENT_FAILURES.has(failureKind)
isTransient(failureKind) == failureKind \in TRANSIENT_FAILURES

\* executeSinglePass after the process has ended and verify has returned:
\* crash detection, applicability, failure kind and gate status
SinglePassResult(spawnResult, specHashBefore, specHashAfter, r) ==
    LET agentCrashed == detectNoMessagesError(spawnResult.stderrTail)
        verificationSpecHash == IF r.written THEN r.spec_hash ELSE ""
        verificationState ==
            IF r.written /\ r.state \in {"verified", "unverified"}
            THEN r.state ELSE "unknown"
        limit == r.written /\ r.limit
        verificationApplicable ==
            /\ specHashBefore = verificationSpecHash
            /\ specHashBefore = specHashAfter
        failureKind ==
            IF agentCrashed THEN "unknown_agent_crash"
            ELSE IF spawnResult.timedOut THEN "unknown_transient"
            ELSE IF verificationApplicable /\ verificationState = "verified"
            THEN "none"
            ELSE IF verificationApplicable
                    /\ verificationState = "unverified"
            THEN "verification_failed"
            ELSE IF limit THEN "unknown_verifier_limit"
            ELSE IF ~verificationApplicable THEN "unknown_internal"
            ELSE "unknown_transient"
    IN  [spawnExitCode |-> spawnResult.exitCode,
         timedOut |-> spawnResult.timedOut,
         specHashAfter |-> specHashAfter,
         verificationState |-> verificationState,
         verificationApplicable |-> verificationApplicable,
         failureKind |-> failureKind,
         gateStatus |-> IF failureKind = "none" THEN "passed"
                        ELSE IF failureKind = "verification_failed"
                        THEN "failed" ELSE "unknown",
         agentCrashed |-> agentCrashed,
         receipt |-> r]

\* final_state and exit code from the gate status of the last pass and
\* the state of the final verification receipt
finalOutcome(gateStatus, verificationState) ==
    IF gateStatus = "unknown"
    THEN [final_state |-> "completed_unknown", exit_code |-> 2]
    ELSE IF gateStatus = "failed"
    THEN [final_state |-> "completed_unverified", exit_code |-> 1]
    ELSE IF gateStatus = "passed" \/ verificationState = "verified"
    THEN [final_state |-> "completed_verified", exit_code |-> 0]
    ELSE IF verificationState = "unverified"
    THEN [final_state |-> "completed_unverified", exit_code |-> 1]
    ELSE [final_state |-> "completed_unknown", exit_code |-> 2]

\* the run directory: absent files are empty sequences; of
\* verification.json the state is kept, of run_receipt.json the final
\* state and the exit code
EmptyDir ==
    [exit_code |-> <<>>, started |-> <<>>, finished |-> <<>>,
     run_receipt |-> <<>>, verification |-> <<>>]

NoPass ==
    [spawnExitCode |-> -1, timedOut |-> FALSE, specHashAfter |-> "",
     verificationState |-> "", verificationApplicable |-> FALSE,
     failureKind |-> "none", gateStatus |-> "", agentCrashed |-> FALSE,
     receipt |-> NoReceiptFile]

\* the counters of agent before the first pass
NoLoop ==
    [gates |-> <<>>, specHashBefore |-> "", gate |-> 0, attempt |-> 0,
     totalPasses |-> 0, allGatesPassed |-> TRUE, changed |-> FALSE,
     last |-> NoPass]

NoCommandLine ==
    [command |-> "", cmd |-> "", argv |-> <<>>, forceNoMessages |-> FALSE,
     validatorExit |-> -1,
     input |-> [readable |-> FALSE, capabilities |-> <<>>,
                validations |-> <<>>, predicates |-> <<>>,
                options |-> [onlyCheckIds |-> <<>>,
                             onlyCheckPrefix |-> <<>>]]]

\* neither run nor agent has run
AgentIdle ==
    /\ apc = "off"
    /\ ain = NoCommandLine
    /\ validation = -1
    /\ specFile = "absent"
    /\ dir = EmptyDir
    /\ loop = NoLoop
    /\ passes = <<>>
    /\ written = {}
    /\ spawns = 0
    /\ aexit = -1

\* a variant: only an undecidable spec blocks the command
blocksOnUndecidable(code) == code = 2

\* validateResult.exitCode !== 0
blocks(code) == code # 0

\* run: validation does not exit 0, the command is not executed
RunBlocked ==
    /\ apc = "start" /\ ain.command = "run"
    /\ blocks(ain.validatorExit)
    /\ validation' = ain.validatorExit
    /\ aexit' = ain.validatorExit
    /\ apc' = "done"
    /\ UNCHANGED <<ain, specFile, dir, loop, passes, written, spawns,
                   validatorVars, verifyVars>>

\* run: validation exits 0, the run directory is made and the command is
\* spawned
RunSpawn ==
    /\ apc = "start" /\ ain.command = "run"
    /\ ~blocks(ain.validatorExit)
    /\ validation' = ain.validatorExit
    /\ spawns' = spawns + 1
    /\ apc' = "spawned"
    /\ UNCHANGED <<ain, specFile, dir, loop, passes, written, aexit,
                   validatorVars, verifyVars>>

\* run: the command closes (code ?? 1) or cannot be spawned (1); the logs
\* are written and its exit code is returned
RunExit ==
    /\ apc = "spawned"
    /\ \E code \in {0, 1, 2} : aexit' = code
    /\ apc' = "done"
    /\ UNCHANGED <<ain, validation, specFile, dir, loop, passes, written,
                   spawns, validatorVars, verifyVars>>

\* agent: the command is not in the allowlist, or the arguments of claude
\* are refused
AgentRejected ==
    /\ apc = "start" /\ ain.command = "agent"
    /\ \/ ain.cmd \notin ALLOWED_COMMANDS
       \/ ~validateClaudeArgs(ain.argv).valid
    /\ aexit' = 1
    /\ apc' = "done"
    /\ UNCHANGED <<ain, validation, specFile, dir, loop, passes, written,
                   spawns, validatorVars, verifyVars>>

Accepted ==
    /\ apc = "start" /\ ain.command = "agent"
    /\ ain.cmd \in ALLOWED_COMMANDS
    /\ validateClaudeArgs(ain.argv).valid

\* agent: validation does not exit 0
AgentBlocked ==
    /\ Accepted
    /\ blocks(ain.validatorExit)
    /\ validation' = ain.validatorExit
    /\ aexit' = ain.validatorExit
    /\ apc' = "done"
    /\ UNCHANGED <<ain, specFile, dir, loop, passes, written, spawns,
                   validatorVars, verifyVars>>

\* agent: validation passes; the hash of the spec is recorded, the run
\* directory is made, agent.exit_code (-1) and agent.started are written
AgentCreate ==
    /\ Accepted
    /\ ~blocks(ain.validatorExit)
    /\ validation' = ain.validatorExit
    /\ loop' = [loop EXCEPT !.specHashBefore = specFile]
    /\ dir' = [dir EXCEPT !.exit_code = <<-1>>, !.started = <<"started">>]
    /\ written' = {"agent.exit_code", "agent.started"}
    /\ apc' = "created"
    /\ UNCHANGED <<ain, specFile, passes, spawns, aexit,
                   validatorVars, verifyVars>>

\* agent: loadParser() throws
AgentLoadFail ==
    /\ apc = "created"
    /\ dir' = [dir EXCEPT !.exit_code = <<2>>, !.finished = <<2>>]
    /\ written' = written \cup {"agent.finished"}
    /\ aexit' = 2
    /\ apc' = "done"
    /\ UNCHANGED <<ain, validation, specFile, loop, passes, spawns,
                   validatorVars, verifyVars>>

\* agent: the spec is parsed, the gates are detected and agent_request.json
\* is written
AgentPrepare ==
    /\ apc = "created"
    /\ LET gates == extractGates(ain.input.validations)
       IN  loop' = [loop EXCEPT !.gates = gates,
                                !.gate = IF gates = <<>> THEN 0 ELSE 1,
                                !.attempt = 1]
    /\ written' = written \cup {"agent_request.json"}
    /\ apc' = "ready"
    /\ UNCHANGED <<ain, validation, specFile, dir, passes, spawns, aexit,
                   validatorVars, verifyVars>>

hasGates == loop.gates # <<>>

\* executeSinglePass begins: the log files are made and the command is
\* spawned, unless DIL_TEST_FORCE_NO_MESSAGES is set
PassStart ==
    /\ apc = "ready"
    /\ loop' = [loop EXCEPT !.totalPasses = @ + 1]
    /\ spawns' = IF ain.forceNoMessages THEN spawns ELSE spawns + 1
    /\ apc' = "running"
    /\ UNCHANGED <<ain, validation, specFile, dir, passes, written, aexit,
                   validatorVars, verifyVars>>

\* the agent process, or anything else, rewrites or removes the spec file
\* while the pass runs
SpecFiles == {"h0", "h1", "absent"}

SpecTouched ==
    /\ apc = "running" /\ ~ain.forceNoMessages
    /\ \E h \in SpecFiles \ {specFile} : specFile' = h
    /\ UNCHANGED <<apc, ain, validation, dir, loop, passes, written, spawns,
                   aexit, validatorVars, verifyVars>>

\* what spawnWithStreams resolves to: the child closes, or is killed after
\* the timeout, with or without the crash signature on stderr
SpawnResults ==
    {[exitCode |-> c, timedOut |-> FALSE, stderrTail |-> <<>>] :
        c \in {0, 1}}
    \cup {[exitCode |-> 1, timedOut |-> FALSE,
           stderrTail |-> <<"partial", NoMessagesReturned>>],
          [exitCode |-> 1, timedOut |-> TRUE, stderrTail |-> <<>>]}

Simulated ==
    [exitCode |-> 1, timedOut |-> FALSE,
     stderrTail |-> <<NoMessagesReturned>>]

\* hashFile(absoluteSpecPath) throws after the pass: agent rejects and
\* main exits 1
PassThrows ==
    /\ apc = "running" /\ specFile = "absent"
    /\ aexit' = 1
    /\ apc' = "threw"
    /\ UNCHANGED <<ain, validation, specFile, dir, loop, passes, written,
                   spawns, validatorVars, verifyVars>>

\* checks of a spec given to agent
MaxAgentChecks == 2

\* onlyCheckPrefix of the pass: the prefix of the gate, if any
gateOption == IF hasGates THEN <<loop.gates[loop.gate]>> ELSE <<>>

\* the pass ends: the process has closed, the spec is hashed, verify runs
\* on the checks of the gate, the pass is classified, and the attempt loop
\* and the gate loop go on or stop; lastPassResult is kept for the pass
\* that ends the loops (that of an earlier pass is overwritten unread, and
\* its failure kind and gate status stay in passes)
\* a variant: a transient failure is always given a retry reason
retryReasonWheneverTransient(attempt, gateStatus, failureKind) ==
    IF gateStatus = "passed" THEN Null
    ELSE IF failureKind = "unknown_agent_crash"
    THEN "retryable: agent crash"
    ELSE IF failureKind = "unknown_transient"
    THEN "retryable: transient failure"
    ELSE Null

\* retryReason of an attempt: set only when the failure is transient and
\* another attempt is allowed (canRetry)
retryReasonOf(attempt, gateStatus, failureKind) ==
    LET canRetry == attempt < MAX_GATE_RETRIES /\ isTransient(failureKind)
    IN  IF gateStatus = "passed" THEN Null
        ELSE IF failureKind = "unknown_agent_crash" /\ canRetry
        THEN "retryable: agent crash"
        ELSE IF failureKind = "unknown_transient" /\ canRetry
        THEN "retryable: transient failure"
        ELSE Null

PassEnd ==
    /\ apc = "running" /\ specFile # "absent"
    /\ \E sr \in IF ain.forceNoMessages THEN {Simulated} ELSE SpawnResults,
          r \in verifyReceipts(ain.input, gateOption, specFile) :
          LET gatePrefix == IF hasGates THEN loop.gates[loop.gate] ELSE Null
              res == SinglePassResult(sr, loop.specHashBefore, specFile, r)
              gatePassed == res.gateStatus = "passed"
              again == /\ hasGates
                       /\ isTransient(res.failureKind)
                       /\ loop.attempt + 1 <= MAX_GATE_RETRIES
                       /\ ~gatePassed
              onward == /\ hasGates /\ gatePassed
                        /\ loop.gate < Len(loop.gates)
          IN  /\ passes' = Append(passes,
                               [gate |-> gatePrefix,
                                attempt |-> loop.attempt,
                                failureKind |-> res.failureKind,
                                gateStatus |-> res.gateStatus,
                                retryReason |->
                                    IF hasGates
                                    THEN retryReasonOf(loop.attempt,
                                             res.gateStatus, res.failureKind)
                                    ELSE Null])
              /\ loop' = [loop EXCEPT
                   !.last = IF again \/ onward THEN NoPass ELSE res,
                   !.changed = @ \/ specFile # loop.specHashBefore,
                   !.attempt = IF again THEN @ + 1
                               ELSE IF onward THEN 1 ELSE @,
                   !.gate = IF onward THEN @ + 1 ELSE @,
                   !.allGatesPassed =
                       IF hasGates /\ ~again /\ ~gatePassed
                       THEN FALSE ELSE @]
              /\ apc' = IF again \/ onward THEN "ready" ELSE "final"
    /\ UNCHANGED <<ain, validation, specFile, dir, written, spawns, aexit,
                   validatorVars, verifyVars>>

\* the minimal receipt written when the receipt of the last pass cannot
\* be read
minimalReceipt(specHashBefore, gated) ==
    [written |-> TRUE, spec_hash |-> specHashBefore,
     state |-> IF gated THEN "unverified" ELSE "unknown", limit |-> FALSE]

\* after the last pass: the final full verification when every gate has
\* passed, else the receipt of the last pass is copied to
\* verification.json; the final state is determined, agent.exit_code,
\* run_receipt.json and agent.finished are written and agent returns
Finalize ==
    /\ apc = "final"
    /\ \E full \in verifyReceipts(ain.input, <<>>, specFile) :
          LET verification ==
                  IF hasGates /\ loop.allGatesPassed
                  THEN IF full.written THEN <<full.state>>
                       ELSE dir.verification
                  ELSE IF loop.last.receipt.written
                  THEN <<loop.last.receipt.state>>
                  ELSE <<minimalReceipt(loop.specHashBefore,
                                        hasGates).state>>
              verificationState ==
                  IF /\ verification # <<>>
                     /\ verification[1] \in {"verified", "unverified"}
                  THEN verification[1] ELSE "unknown"
              outcome == finalOutcome(loop.last.gateStatus,
                                      verificationState)
          IN  /\ dir' = [dir EXCEPT
                   !.verification = verification,
                   !.exit_code = <<loop.last.spawnExitCode>>,
                   !.run_receipt =
                       <<[final_state |-> outcome.final_state,
                          exit_code |-> outcome.exit_code]>>,
                   !.finished = <<outcome.exit_code>>]
              /\ written' =
                   written \cup {"agent.exit_code", "run_receipt.json",
                                 "agent.finished"}
                           \cup IF hasGates /\ loop.allGatesPassed
                                   /\ ~full.written
                                THEN {} ELSE {"verification.json"}
              /\ aexit' = outcome.exit_code
    /\ apc' = "done"
    /\ UNCHANGED <<ain, validation, specFile, loop, passes, spawns,
                   validatorVars, verifyVars>>

\* the dil process is killed while the agent process runs
Kill ==
    /\ apc = "running"
    /\ apc' = "killed"
    /\ UNCHANGED <<ain, validation, specFile, dir, loop, passes, written,
                   spawns, aexit, validatorVars, verifyVars>>

\* the spec file holds its first content and the same command line is
\* given again: the hashes of the spec and of the command name the same
\* run directory (explored for the specs of fewer than MaxAgentChecks
\* checks)
Reinvoke ==
    /\ apc \in {"done", "threw", "killed"} /\ ain.command = "agent"
    /\ Len(ain.input.validations) < MaxAgentChecks
    /\ apc' = "start"
    /\ specFile' = "h0"
    /\ validation' = -1
    /\ loop' = NoLoop
    /\ passes' = <<>>
    /\ written' = {}
    /\ spawns' = 0
    /\ aexit' = -1
    /\ UNCHANGED <<ain, dir, validatorVars, verifyVars>>

(***************************************************************************)
(* Bounded inputs                                                          *)
(***************************************************************************)

\* lines of a text after its header and system line
MaxLines == 5

\* lines of a synthetic intents section
MaxIntentLines == 3

\* decisions of a synthetic ParsedSpec
MaxDecisions == 1

\* outcomes and errors of a synthetic report
MaxOutcomes == 2
MaxErrors == 2

SeqsUpTo(S, n) == UNION {[1..k -> S] : k \in 0..n}

NoDup(seq) == \A j, k \in 1..Len(seq) : j # k => seq[j] # seq[k]

NoDupIds(map) == NoDup(Ids(map))

\* every text made of one of the prefixes and at most n lines of vocab
Texts(prefixes, vocab, n) ==
    {p \o body : p \in prefixes, body \in SeqsUpTo(vocab, n)}

File(status, content) == [status |-> status, content |-> content]

IntentMaps ==
    {<<>>, <<[id |-> "I1"]>>, <<[id |-> "I2"]>>,
     <<[id |-> "I1"], [id |-> "I2"]>>, <<[id |-> "I2"], [id |-> "I1"]>>}

Decision(id, supports, respects) ==
    [id |-> id, supports |-> supports, respects |-> respects]

DecisionMaps(supports, respects, n) ==
    {m \in SeqsUpTo({Decision(id, s, r) :
                        id \in {"D1", "D2"}, s \in supports, r \in respects},
                    n) : NoDupIds(m)}

\* the decision maps whose decisions are declared as D1, then D2
DecisionsInOrder(supports, respects, n) ==
    {m \in DecisionMaps(supports, respects, n) :
        \A k \in 1..Len(m) : m[k].id = <<"D1", "D2", "D3">>[k]}

Validation(id, cap) == [id |-> id, requires_capability |-> cap]

\* sections_raw holding only the intents section, or nothing at all
SectionsRaw(intentTexts) ==
    {NoSections} \cup {SetKey(NoSections, "intents", t) : t \in intentTexts}

ParsedSpecs(versions, ints, sections, decs, cons, vals, caps, texts) ==
    [spec_version : versions, system_id : {"S"}, raw_text : texts,
     sections_raw : sections, capabilities : caps,
     intents : ints, constraints : cons,
     decisions : decs, validations : vals,
     issues : {<<>>}]

\* main has not run: nothing read, parsed, validated or written
MainIdle ==
    /\ raw = <<>>
    /\ ScanIdle
    /\ canonicalObj = Obj(<<>>)
    /\ stdout = <<>>
    /\ exit = -1

\* neither main nor verify nor run nor agent has run
Fresh == MainIdle /\ VerifyIdle /\ AgentIdle

(***************************************************************************)
(* Spec: the validator entrypoint on a spec path.                          *)
(***************************************************************************)

Prefix == {<<"DIL:spec v0", "system \"S\" {">>}

IntentVocabulary ==
    {"intents {", "intent I1", "intent I2 {", "  validations: [V1]", "}"}

Init ==
    /\ pc = "start"
    /\ file \in {File("no_argument", <<>>), File("unreadable", <<>>)}
                \cup {File("readable", t) :
                        t \in Texts(Prefix, IntentVocabulary, MaxLines)}
    /\ Fresh
    /\ parsed = NoSpec
    /\ result = NoResult

Next ==
    \/ MainUsage
    \/ MainReadFail
    \/ MainRead
    \/ ParseStart
    \/ ScanOutside
    \/ ScanLine
    \/ ParseReturn
    \/ Validate
    \/ Emit

Spec == Init /\ [][Next]_vars

(***************************************************************************)
(* SpecValidate: validateCore and emitCanonicalReport on any ParsedSpec,   *)
(* beside the entrypoint's report for an unreadable input.                 *)
(***************************************************************************)

InitValidate ==
    /\ \/ /\ pc = "validate"
          /\ file = File("readable", <<>>)
          /\ parsed \in ParsedSpecs(
                {"DIL:spec v0", "DIL:spec v9", "unknown"},
                {<<>>, <<[id |-> "I1"]>>, <<[id |-> "I1"], [id |-> "I2"]>>},
                SectionsRaw({<<"intent I1 {", "  validations: [V1]">>,
                             <<"intent I1 {", "  validations: [V1]",
                               "intent I2 {", "validation: V1">>}),
                DecisionMaps({<<>>, <<"I1">>, <<"I2", "I9">>},
                             {<<>>, <<"C1">>}, MaxDecisions),
                {<<>>, <<[id |-> "C1", severity |-> "HARD"]>>},
                {<<>>, <<Validation("V1", Null)>>, <<Validation("V1", "x")>>},
                {<<>>, <<"x">>},
                {<<"DIL:spec v0">>, <<"DIL:spec v0", "use an LRU cache">>})
       \/ /\ pc = "start"
          /\ file = File("unreadable", <<>>)
          /\ parsed = NoSpec
    /\ Fresh
    /\ result = NoResult

NextValidate == MainReadFail \/ Validate \/ Emit

SpecValidate == InitValidate /\ [][NextValidate]_vars


(***************************************************************************)
(* SpecVM1: validateCore on ParsedSpecs of supported version that vary in  *)
(* their intents, intents section, supports lists and validations.         *)
(***************************************************************************)

VM1Lines ==
    {"intent I1 {", "intent I2 {", "  validations: [V1]",
     "# validations: [V1]"}

InitVM1 ==
    /\ pc = "validate"
    /\ file = File("readable", <<>>)
    /\ parsed \in ParsedSpecs(
          {"DIL:spec v0"},
          IntentMaps,
          SectionsRaw(SeqsUpTo(VM1Lines, MaxIntentLines)),
          DecisionsInOrder({<<"I1">>, <<"I2", "I9">>}, {<<>>}, MaxDecisions),
          {<<>>},
          {<<>>, <<Validation("V1", Null)>>, <<Validation("V1", "x")>>},
          {<<>>},
          {<<"DIL:spec v0">>})
    /\ Fresh
    /\ result = NoResult

NextVM1 == Validate \/ Emit

SpecVM1 == InitVM1 /\ [][NextVM1]_vars

(***************************************************************************)
(* SpecVM4: validateCore on ParsedSpecs of supported version that vary in  *)
(* their validations and declared capabilities.                            *)
(***************************************************************************)

\* validations of a synthetic ParsedSpec
MaxValidations == 2

ValidationMaps(caps, n) ==
    {m \in SeqsUpTo({Validation(id, c) : id \in {"V1", "V2"}, c \in caps}, n) :
        NoDupIds(m)}

InitVM4 ==
    /\ pc = "validate"
    /\ file = File("readable", <<>>)
    /\ parsed \in ParsedSpecs(
          {"DIL:spec v0"},
          {<<>>},
          {NoSections},
          {<<>>},
          {<<>>},
          ValidationMaps({Null, "x", "y"}, MaxValidations),
          {<<>>, <<"x">>, <<"y">>, <<"y", "x">>, <<"emit_structured_errors">>},
          {<<"DIL:spec v0">>})
    /\ Fresh
    /\ result = NoResult

NextVM4 == Validate \/ Emit

SpecVM4 == InitVM4 /\ [][NextVM4]_vars

(***************************************************************************)
(* SpecVM5: validateCore on ParsedSpecs of supported version that vary in  *)
(* their raw text.                                                         *)
(***************************************************************************)

\* lines of a synthetic raw text
MaxTextLines == 2

LeakVocabulary ==
    {"a b-tree index", "use an LRU cache", "cost is O(log n)",
     "lookup is O(n)", "O(n)x", "rebalance shards", "background job",
     "compaction", "every 5 minutes", "every 5", "minutes", "# uses lru",
     "pool of workers"}

InitVM5 ==
    /\ pc = "validate"
    /\ file = File("readable", <<>>)
    /\ parsed \in ParsedSpecs(
          {"DIL:spec v0"},
          {<<>>},
          {NoSections},
          {<<>>},
          {<<>>},
          {<<>>},
          {<<>>},
          SeqsUpTo(LeakVocabulary, MaxTextLines))
    /\ Fresh
    /\ result = NoResult

NextVM5 == Validate \/ Emit

SpecVM5 == InitVM5 /\ [][NextVM5]_vars

(***************************************************************************)
(* SpecVM2: validateCore on ParsedSpecs of supported version that vary in  *)
(* their constraints and in one decision.                                  *)
(***************************************************************************)

\* constraints of a synthetic ParsedSpec
MaxConstraints == 2

ConstraintMaps(n) ==
    {m \in SeqsUpTo({[id |-> id, severity |-> s] :
                        id \in {"C1", "C2"}, s \in {Null, "HARD", "SOFT"}},
                    n) : NoDupIds(m)}

InitVM2 ==
    /\ pc = "validate"
    /\ file = File("readable", <<>>)
    /\ parsed \in ParsedSpecs(
          {"DIL:spec v0"},
          {<<>>},
          {NoSections},
          {<<>>, <<Decision("D1", <<>>, <<"C1">>)>>,
           <<Decision("D1", <<"I1">>, <<"C2">>)>>},
          ConstraintMaps(MaxConstraints),
          {<<>>},
          {<<>>},
          {<<"DIL:spec v0">>})
    /\ Fresh
    /\ result = NoResult

NextVM2 == Validate \/ Emit

SpecVM2 == InitVM2 /\ [][NextVM2]_vars

(***************************************************************************)
(* SpecParse: parseDil on texts with and without a header line and a       *)
(* system declaration.  The loops of parseDil run to their end without     *)
(* waiting for anything, hence the weak fairness of its steps.             *)
(***************************************************************************)

\* lines of a text after its header lines
MaxBodyLines == 3

HeaderLines ==
    {<<>>, <<"DIL:spec v0">>, <<"DILspec">>,
     <<"# validations: [V1]", "DILspec">>, <<"", "DIL:spec v0">>}

BodyVocabulary == {"system \"S\" {", "intents {", "intent I1", "}"}

InitParse ==
    /\ pc = "start"
    /\ file \in {File("readable", t) :
                    t \in Texts(HeaderLines, BodyVocabulary, MaxBodyLines)}
    /\ Fresh
    /\ parsed = NoSpec
    /\ result = NoResult

NextParse ==
    \/ MainRead
    \/ ParseStart
    \/ ScanOutside
    \/ ScanLine
    \/ ParseReturn

SpecParse == InitParse /\ [][NextParse]_vars /\ WF_vars(NextParse)

(***************************************************************************)
(* SpecEmit: emitCanonicalReport on any report, among them reports whose   *)
(* outcomes or errors agree on their sort key.                             *)
(***************************************************************************)

ReportOutcomes ==
    {Outcome("V-M1", "satisfied", <<"intents.I2", "intents.I1">>, Null,
             <<>>, <<>>),
     Outcome("V-M1", "unsatisfied", <<"intents.I1">>, Null, <<>>, <<>>),
     Outcome("V-M1", "unsatisfied", <<"intents.I1", "intents.I2">>, Null,
             <<>>, <<>>),
     Outcome("V-M3", "unsatisfied", <<"decisions.D1">>, Null, <<>>, <<>>)}

ReportErrors ==
    {Error("BROKEN_REFERENCE", "Decision references non-existent intent or constraint.",
           Obj(<<KV("decision", Str("decisions.D2")),
                 KV("intent", Str("I1"))>>)),
     Error("BROKEN_REFERENCE", "Decision references non-existent intent or constraint.",
           Obj(<<KV("intent", Str("I9")),
                 KV("decision", Str("decisions.D1"))>>)),
     Error("BROKEN_REFERENCE", "Broken reference.",
           Obj(<<KV("decision", Str("decisions.D1")),
                 KV("intent", Str("I9"))>>)),
     Error("UNTRACED_DECISION", "Decision missing traceability links to intents/constraints.",
           Obj(<<KV("constraint", Str("constraints.C2")),
                 KV("decision", Str("decisions.D1"))>>))}

InitEmit ==
    /\ pc = "emit"
    /\ file = File("readable", <<>>)
    /\ parsed = NoSpec
    /\ \E os \in SeqsUpTo(ReportOutcomes, MaxOutcomes),
          es \in SeqsUpTo(ReportErrors, MaxErrors) :
          result = [report |-> Report("DIL:spec v0", "S", "invalid", os, es),
                    exit_code |-> 1]
    /\ Fresh

NextEmit == Emit

SpecEmit == InitEmit /\ [][NextEmit]_vars


(***************************************************************************)
(* SpecVerify: the verify command on specs whose validations carry the     *)
(* predicates below, with the file system, the child processes and the     *)
(* HTTP servers answering in every way the handlers distinguish.           *)
(***************************************************************************)

\* validations of a spec that runs several checks
MaxChecks == 2

\* the ids of the validations, in the orders of declaration of the model
ValidationIds == {<<"V1", "V2", "C1", "D1">>, <<"V2", "V1", "D1", "C1">>}

\* a predicate text: the capability, then " " and a token for each piece
RECURSIVE Spaced(_)
Spaced(pieces) ==
    IF pieces = <<>> THEN <<>>
    ELSE <<" ">> \o Head(pieces) \o Spaced(Tail(pieces))

Predicate(capability, pieces) ==
    [capability |-> capability, text |-> <<capability>> \o Spaced(pieces)]

\* predicates of checks that run
RunVocabulary ==
    {Predicate("check_file_exists", <<<<"path", "=", "/", "a">>>>),
     Predicate("check_command_exit",
               <<<<"cmd", "=", "x">>, <<"args", "=">>>>),
     Predicate("check_http_endpoint", <<<<"url", "=", "http://h/">>>>),
     Predicate("check_file_exists", <<<<"bogus", "=", "1">>>>)}

\* predicates met by a single check
PredicateVocabulary ==
    {Predicate("check_file_exists",
               <<<<"path", "=", "/", "a">>, <<"type", "=", "file">>,
                 <<"min_size_bytes", "=", "5">>>>),
     Predicate("check_file_exists",
               <<<<"path", "=", "/", "a">>, <<"bogus", "=", "1">>>>),
     Predicate("check_file_exists", <<<<"type", "=", "file">>>>),
     Predicate("check_file_exists",
               <<<<"path", "=", "/", "a">>, <<"flag">>>>),
     Predicate("check_file_exists", <<<<"flag">>, <<"bogus", "=", "1">>>>),
     Predicate("check_file_exists", <<<<"=", "1">>>>),
     Predicate("check_file_exists", <<<<"path", "=", "a">>>>),
     Predicate("check_file_exists",
               <<<<"path", "=", "/", "a">>, <<"type", "=", "link">>>>),
     Predicate("check_file_exists",
               <<<<"path", "=", "/", "a">>,
                 <<"min_size_bytes", "=", "0", "5">>>>),
     Predicate("check_command_exit",
               <<<<"cmd", "=", "x">>, <<"args", "=", "a,b">>,
                 <<"expected_exit", "=", "1">>,
                 <<"timeout_ms", "=", "5">>>>),
     Predicate("check_command_exit", <<<<"cmd", "=", "x">>>>),
     Predicate("check_command_exit",
               <<<<"cmd", "=", "x">>, <<"args", "=">>,
                 <<"timeout_ms", "=", "0">>>>),
     Predicate("check_command_exit",
               <<<<"cmd", "=", "x">>, <<"args", "=">>,
                 <<"expected_exit", "=", "-", "x">>>>),
     Predicate("check_command_exit",
               <<<<"cmd", "=", "x">>, <<"args", "=">>, <<"env", "=", "1">>>>),
     Predicate("check_http_endpoint",
               <<<<"url", "=", "https://h/">>, <<"method", "=", "get">>,
                 <<"expected_status", "=", "5", "0", "0">>>>),
     Predicate("check_http_endpoint", <<<<"url", "=", "ftp://h/">>>>),
     Predicate("check_http_endpoint", <<<<"url", "=", "h">>>>),
     Predicate("check_http_endpoint",
               <<<<"url", "=", "http://h/">>, <<"method", "=", "POST">>>>),
     Predicate("check_http_endpoint",
               <<<<"url", "=", "http://h/">>,
                 <<"expected_status", "=", "9", "9">>>>),
     Predicate("check_http_endpoint", <<<<"method", "=", "GET">>>>),
     [capability |-> "check_file_exists",
      text |-> <<"check_command_exit", " ", "cmd", "=", "x">>],
     [capability |-> "run_tests", text |-> <<"run_tests">>],
     [capability |-> "check_file_exists", text |-> <<>>]}

\* the validations and the predicates of a spec, from the predicates of
\* its validations in the order of their declaration
VerifyInput(ids, ps, caps, options) ==
    [readable |-> TRUE,
     capabilities |-> caps,
     validations |-> [n \in 1..Len(ps) |->
                         [id |-> ids[n],
                          requires_capability |-> ps[n].capability]],
     predicates |-> SelectSeq([n \in 1..Len(ps) |->
                                  [id |-> ids[n],
                                   text |-> ps[n].text]],
                              LAMBDA p : p.text # <<>>),
     options |-> options]

\* the capabilities block of the spec: every verification capability, or
\* none of them
DeclaredCapabilities ==
    {<<"check_file_exists", "check_command_exit", "check_http_endpoint">>,
     <<"emit_report">>}

NoOptions == [onlyCheckIds |-> <<>>, onlyCheckPrefix |-> <<>>]

VerifyOptions ==
    {NoOptions,
     [onlyCheckIds |-> <<"V1">>, onlyCheckPrefix |-> <<"C1">>],
     [onlyCheckIds |-> <<>>, onlyCheckPrefix |-> <<"V2", "C1">>]}

InitVerify ==
    /\ pc = "off"
    /\ file = File("no_argument", <<>>)
    /\ MainIdle
    /\ parsed = NoSpec
    /\ result = NoResult
    /\ vpc = "start"
    /\ vin \in {[readable |-> FALSE, capabilities |-> <<>>,
                 validations |-> <<>>, predicates |-> <<>>,
                 options |-> NoOptions]}
               \cup {VerifyInput(ids, ps, caps, o) :
                        ids \in ValidationIds,
                        ps \in SeqsUpTo(RunVocabulary, MaxChecks),
                        caps \in DeclaredCapabilities,
                        o \in VerifyOptions}
               \cup {VerifyInput(<<"V1">>, <<p>>, caps, NoOptions) :
                        p \in PredicateVocabulary,
                        caps \in DeclaredCapabilities}
    /\ todo = <<>>
    /\ checks = <<>>
    /\ ops = <<>>
    /\ calls = <<>>
    /\ receipt = NoReceipt(-1)
    /\ AgentIdle

NextVerify ==
    \/ VerifyReadFail
    \/ VerifyLoadFail
    \/ VerifySelect
    \/ CheckRejected
    \/ CheckFile
    \/ Spawn
    \/ Request
    \/ Resume
    \/ Timer
    \/ ChildError
    \/ ChildClose
    \/ Response
    \/ ReqTimeout
    \/ ReqError
    \/ Aggregate

SpecVerify == InitVerify /\ [][NextVerify]_vars


(***************************************************************************)
(* SpecAgent: the run and agent commands on a validated spec.              *)
(***************************************************************************)

\* the validations of the specs given to agent: checks of three gates,
\* one with a predicate that the verifier refuses, and a check outside
\* the gates
AgentVocabulary ==
    {[id |-> "V_GATE_01_A",
      p |-> Predicate("check_file_exists", <<<<"path", "=", "/", "a">>>>)],
     [id |-> "V_GATE_02_A",
      p |-> Predicate("check_file_exists", <<<<"bogus", "=", "1">>>>)],
     [id |-> "V_GATE_10_A",
      p |-> Predicate("check_file_exists", <<<<"path", "=", "/", "c">>>>)],
     [id |-> "V1",
      p |-> Predicate("check_file_exists", <<<<"path", "=", "/", "b">>>>)]}

AgentInput(vs) ==
    VerifyInput([n \in 1..Len(vs) |-> vs[n].id],
                [n \in 1..Len(vs) |-> vs[n].p],
                <<"check_file_exists">>, NoOptions)

AgentInputs ==
    {AgentInput(vs) :
        vs \in {s \in SeqsUpTo(AgentVocabulary, MaxAgentChecks) : NoDup(s)}}

\* a command line, the spec it names and the exit code of the validator
\* on that spec
CommandLine(command, cmd, argv, forceNoMessages, validatorExit, input) ==
    [command |-> command, cmd |-> cmd, argv |-> argv,
     forceNoMessages |-> forceNoMessages, validatorExit |-> validatorExit,
     input |-> input]

CommandLines ==
    {CommandLine("run", "echo", <<"ok">>, FALSE, e, AgentInput(<<>>)) :
        e \in {0, 1, 2}}
    \cup {CommandLine("agent", c.cmd, c.argv, FALSE, e, AgentInput(<<>>)) :
            c \in {[cmd |-> "bash", argv |-> <<"-p", "prompt">>],
                   [cmd |-> "claude", argv |-> <<"prompt">>],
                   [cmd |-> "claude", argv |-> <<"--print", "fix", "it">>]},
            e \in {0, 1}}
    \cup {CommandLine("agent", "claude", <<"-p", "prompt">>, FALSE, e,
                      AgentInput(<<>>)) : e \in {1, 2}}
    \cup {CommandLine("agent", "claude", <<"-p", "prompt">>, FALSE, 0,
                      input) : input \in AgentInputs}
    \cup {CommandLine("agent", "claude", <<"-p", "prompt">>, TRUE, 0,
                      AgentInput(<<v>>)) : v \in AgentVocabulary}

InitAgent ==
    /\ pc = "off"
    /\ file = File("no_argument", <<>>)
    /\ MainIdle
    /\ parsed = NoSpec
    /\ result = NoResult
    /\ VerifyIdle
    /\ apc = "start"
    /\ ain \in CommandLines
    /\ validation = -1
    /\ specFile = "h0"
    /\ dir = EmptyDir
    /\ loop = NoLoop
    /\ passes = <<>>
    /\ written = {}
    /\ spawns = 0
    /\ aexit = -1

NextAgent ==
    \/ RunBlocked
    \/ RunSpawn
    \/ RunExit
    \/ AgentRejected
    \/ AgentBlocked
    \/ AgentCreate
    \/ AgentLoadFail
    \/ AgentPrepare
    \/ PassStart
    \/ SpecTouched
    \/ PassThrows
    \/ PassEnd
    \/ Finalize
    \/ Kill
    \/ Reinvoke

SpecAgent == InitAgent /\ [][NextAgent]_vars

(***************************************************************************)
(* SpecSections: parseDil on texts whose system block holds known and      *)
(* unknown blocks at several depths, repeated sections and lines after     *)
(* the end of the system block.                                            *)
(***************************************************************************)

\* lines of a text after its header and system line
MaxSectionLines == 5

SectionVocabulary ==
    {"decisions {", "intents {", "intent I1", "extras {", "}"}

\* the system block is opened by its line, or opened and closed by it
SectionPrefixes ==
    {<<"DIL:spec v0", "system \"S\" {">>,
     <<"DIL:spec v0", "system \"S\" {}">>}

InitSections ==
    /\ pc = "start"
    /\ file \in {File("readable", t) :
                    t \in Texts(SectionPrefixes, SectionVocabulary,
                                   MaxSectionLines)}
    /\ Fresh
    /\ parsed = NoSpec
    /\ result = NoResult

NextSections ==
    \/ MainRead
    \/ ParseStart
    \/ ScanOutside
    \/ ScanLine
    \/ ParseReturn

SpecSections == InitSections /\ [][NextSections]_vars

(***************************************************************************)
(* SpecBlocks: parseDil on texts whose system block opens with an intents, *)
(* a constraints, a decisions or a validations section, followed by        *)
(* declarations (also repeated ones), attribute lines and braces.          *)
(***************************************************************************)

\* lines of a text after the line that opens its first section
MaxBlockLines == 4

IntentLines == {"intents {", "intent I1", "intent I2 {", "}"}

ConstraintLines ==
    {"constraint C1 {", "constraint C2 {", "severity: HARD",
     "severity: SOFT", "}"}

DecisionLines ==
    {"decisions {", "decision D1", "decision D2 {", "supports: [I1]",
     "respects: [C1]", "}"}

ValidationLines ==
    {"validations {", "validate V1 {", "validate V2 {",
     "requires_capability: \"x\"", "}"}

\* the prefix of a text followed by the line that opens a section
Opening(sectionLine) == {p \o <<sectionLine>> : p \in Prefix}

BlockTexts ==
    Texts(Opening("intents {"), IntentLines, MaxBlockLines)
    \cup Texts(Opening("constraints {"), ConstraintLines, MaxBlockLines)
    \cup Texts(Opening("decisions {"), DecisionLines, MaxBlockLines)
    \cup Texts(Opening("validations {"), ValidationLines, MaxBlockLines)

InitBlocks ==
    /\ pc = "start"
    /\ file \in {File("readable", t) : t \in BlockTexts}
    /\ Fresh
    /\ parsed = NoSpec
    /\ result = NoResult

NextBlocks ==
    \/ MainRead
    \/ ParseStart
    \/ ScanOutside
    \/ ScanLine
    \/ ParseReturn

SpecBlocks == InitBlocks /\ [][NextBlocks]_vars

(***************************************************************************)
(* SpecVM3: validateCore on ParsedSpecs of supported version that vary in  *)
(* their decisions: none, one or two, declared in either order, with and   *)
(* without supports, with resolved and unresolved references.              *)
(***************************************************************************)

\* decisions of a synthetic ParsedSpec
MaxTracedDecisions == 2

InitVM3 ==
    /\ pc = "validate"
    /\ file = File("readable", <<>>)
    /\ parsed \in ParsedSpecs(
          {"DIL:spec v0"},
          {<<[id |-> "I1"]>>},
          {NoSections},
          DecisionMaps({<<>>, <<"I1">>, <<"I9">>}, {<<>>, <<"C1">>, <<"C9">>},
                       MaxTracedDecisions),
          {<<[id |-> "C1", severity |-> "HARD"]>>},
          {<<>>, <<Validation("V1", "x")>>},
          {<<"x">>},
          {<<"DIL:spec v0">>})
    /\ Fresh
    /\ result = NoResult

NextVM3 == Validate \/ Emit

SpecVM3 == InitVM3 /\ [][NextVM3]_vars

(***************************************************************************)
(* SpecGates: dil agent on specs whose gate validations are skipped by     *)
(* verify (capability outside the allowlist, no predicate, predicate not   *)
(* starting with the capability) beside validations that are checked.      *)
(***************************************************************************)

GateVocabulary ==
    {[id |-> "V_GATE_01_A",
      p |-> [capability |-> "run_tests", text |-> <<"run_tests">>]],
     [id |-> "V_GATE_01_B",
      p |-> [capability |-> "check_file_exists", text |-> <<>>]],
     [id |-> "V_GATE_02_A",
      p |-> [capability |-> "check_file_exists",
             text |-> <<"check_command_exit", " ", "cmd", "=", "x">>]],
     [id |-> "V_GATE_10_A",
      p |-> Predicate("check_file_exists", <<<<"path", "=", "/", "c">>>>)],
     [id |-> "V1",
      p |-> Predicate("check_file_exists", <<<<"path", "=", "/", "b">>>>)]}

GateInputs ==
    {AgentInput(vs) :
        vs \in {s \in SeqsUpTo(GateVocabulary, MaxAgentChecks) : NoDup(s)}}

InitGates ==
    /\ pc = "off"
    /\ file = File("no_argument", <<>>)
    /\ MainIdle
    /\ parsed = NoSpec
    /\ result = NoResult
    /\ VerifyIdle
    /\ apc = "start"
    /\ ain \in {CommandLine("agent", "claude", <<"-p", "prompt">>, FALSE, 0,
                             input) : input \in GateInputs}
    /\ validation = -1
    /\ specFile = "h0"
    /\ dir = EmptyDir
    /\ loop = NoLoop
    /\ passes = <<>>
    /\ written = {}
    /\ spawns = 0
    /\ aexit = -1

NextGates ==
    \/ AgentCreate
    \/ AgentPrepare
    \/ PassStart
    \/ SpecTouched
    \/ PassThrows
    \/ PassEnd
    \/ Finalize

SpecGates == InitGates /\ [][NextGates]_vars

(***************************************************************************)
(* What the claims say, stated on the inputs and on the reports.           *)
(***************************************************************************)

\* validateCore has returned for the ParsedSpec in `parsed`
Validated == pc \in {"emit", "done"} /\ file.status = "readable"

Passed == Validated /\ parsed.spec_version = "DIL:spec v0"

Reported == result.report

AnyOutcome(status) ==
    \E k \in 1..Len(Reported.outcomes) : Reported.outcomes[k].status = status

\* the outcome of one rule in the report (the rule's status when present)
StatusOf(id) ==
    {Reported.outcomes[k].status :
        k \in {j \in 1..Len(Reported.outcomes) :
                  Reported.outcomes[j].validation_id = id}}

TargetsOf(id) ==
    UNION {{Reported.outcomes[k].targets[n] :
               n \in 1..Len(Reported.outcomes[k].targets)} :
           k \in {j \in 1..Len(Reported.outcomes) :
                     Reported.outcomes[j].validation_id = id}}

ErrorsWith(code) ==
    {k \in 1..Len(Reported.errors) : Reported.errors[k].code = code}

\* the intent's own block of the intents text holds a validations: or
\* validation: line: the line follows an intent line of that id with no
\* other intent line in between
BlockHasAssociation(text, id) ==
    \E j, k \in 1..Len(text) :
        /\ j < k
        /\ Lex[text[j]].kind = "intent" /\ Lex[text[j]].id = id
        /\ Lex[text[k]].kind = "association"
        /\ \A m \in (j + 1)..(k - 1) : Lex[text[m]].kind # "intent"

SomeCapabilityValidation(p) ==
    \E k \in 1..Len(p.validations) : p.validations[k].requires_capability # ""

SupportedIntent(p, id) ==
    \E k \in 1..Len(p.decisions) :
        \E n \in 1..Len(p.decisions[k].supports) :
            p.decisions[k].supports[n] = id

Associated(p, id) ==
    \/ ("intents" \in DOMAIN p.sections_raw
        /\ BlockHasAssociation(p.sections_raw["intents"], id))
    \/ (SomeCapabilityValidation(p) /\ SupportedIntent(p, id))

Unassociated(p) ==
    {p.intents[k].id : k \in {j \in 1..Len(p.intents) :
                                 ~Associated(p, p.intents[j].id)}}

Declared(map) == {map[k].id : k \in 1..Len(map)}

Elements(seq) == {seq[k] : k \in 1..Len(seq)}

\* the signal tokens a text may name, in lower case
SignalTokens ==
    {<<"b", "-", "t", "r", "e", "e">>,
     <<"l", "r", "u">>,
     <<"o", "(", "l", "o", "g", " ", "n", ")">>,
     <<"o", "(", "n", ")">>,
     <<"r", "e", "b", "a", "l", "a", "n", "c", "e">>,
     <<"b", "a", "c", "k", "g", "r", "o", "u", "n", "d">>,
     <<"c", "o", "m", "p", "a", "c", "t", "i", "o", "n">>}

\* the characters t holds from position n on are those of word, in any case
SpelledAt(t, word, n) ==
    /\ n + Len(word) - 1 <= Len(t)
    /\ \A k \in 1..Len(word) : fold(t[n + k - 1]) = word[k]

\* t holds 'every <N> minutes' for some number N
EveryNMinutes(t) ==
    \E n \in 1..Len(t), d \in 1..Len(t) :
        /\ SpelledAt(t, <<"e", "v", "e", "r", "y">>, n)
        /\ n + 6 + d <= Len(t)
        /\ t[n + 5] \in SpaceChars
        /\ \A k \in 1..d : t[n + 5 + k] \in DigitChars
        /\ t[n + 6 + d] \in SpaceChars
        /\ SpelledAt(t, <<"m", "i", "n", "u", "t", "e", "s">>, n + 7 + d)

\* the raw text, comments included, names a signal token somewhere
MentionsSignal(rawText) ==
    \/ \E word \in SignalTokens, n \in 1..Len(charsOf(rawText)) :
          SpelledAt(charsOf(rawText), word, n)
    \/ EveryNMinutes(charsOf(rawText))

\* a decision that V-M3 fails: no supports, or an unresolved reference
FailingDecision(p, d) ==
    \/ Len(d.supports) = 0
    \/ ~(Elements(d.supports) \subseteq Declared(p.intents))
    \/ ~(Elements(d.respects) \subseteq Declared(p.constraints))

NoRuleFails(p) ==
    /\ Unassociated(p) = {}
    /\ \A k \in 1..Len(p.decisions) : ~FailingDecision(p, p.decisions[k])
    /\ ~MentionsSignal(p.raw_text)

MissingCapability(p) ==
    \E k \in 1..Len(p.validations) :
        /\ p.validations[k].requires_capability # ""
        /\ p.validations[k].requires_capability \notin Elements(p.capabilities)

\* C1: past the version gate the state is invalid with exit code 1 iff some
\* outcome is unsatisfied; otherwise undecidable with exit code 2 iff some
\* outcome is unknown; otherwise valid with exit code 0.
C1_AggregationPrecedence ==
    Passed =>
        /\ (Reported.state = "invalid" /\ result.exit_code = 1)
               <=> AnyOutcome("unsatisfied")
        /\ ~AnyOutcome("unsatisfied") =>
               ((Reported.state = "undecidable" /\ result.exit_code = 2)
                    <=> AnyOutcome("unknown"))
        /\ (~AnyOutcome("unsatisfied") /\ ~AnyOutcome("unknown")) =>
               (Reported.state = "valid" /\ result.exit_code = 0)

\* a report with an unsatisfied and an unknown outcome, classified invalid
C1_Witness ==
    /\ Passed
    /\ AnyOutcome("unsatisfied") /\ AnyOutcome("unknown")
    /\ Reported.state = "invalid" /\ result.exit_code = 1

\* C2: a report with state valid has an empty errors list.
C2_ValidHasNoErrors ==
    Validated => (Reported.state = "valid" => Reported.errors = <<>>)

C2_Witness ==
    /\ Validated /\ pc = "done"
    /\ Reported.state = "valid" /\ Reported.errors = <<>>
    /\ Len(parsed.intents) > 0 /\ Len(parsed.decisions) > 0

\* C3: a report with state invalid has a non-empty errors list, whether it
\* comes from validateCore (version gate, V-M1, V-M3, V-M5) or from main's
\* unreadable-input branch.
C3_InvalidHasErrors ==
    /\ Validated => (Reported.state = "invalid" => Len(Reported.errors) > 0)
    /\ (pc = "done" /\ HasKey(canonicalObj, "state")
        /\ Get(canonicalObj, "state").s = "invalid")
           => Len(Get(canonicalObj, "errors").a) > 0

\* invalid only because a decision supports no intent
C3_Witness ==
    /\ Passed /\ pc = "done"
    /\ Reported.state = "invalid"
    /\ StatusOf("V-M1") = {"satisfied"} /\ StatusOf("V-M5") = {"satisfied"}
    /\ StatusOf("V-M3") = {"unsatisfied"}
    /\ \E k \in 1..Len(parsed.decisions) : Len(parsed.decisions[k].supports) = 0
    /\ Len(Get(canonicalObj, "errors").a) > 0

\* C4: past the version gate, a missing capability with no failing rule
\* gives state undecidable, exit code 2 and no errors.
C4_MissingCapabilityUndecidable ==
    (Passed /\ MissingCapability(parsed) /\ NoRuleFails(parsed)) =>
        /\ Reported.state = "undecidable"
        /\ result.exit_code = 2
        /\ Reported.errors = <<>>

C4_Witness ==
    /\ Passed /\ MissingCapability(parsed) /\ NoRuleFails(parsed)
    /\ Len(parsed.intents) > 0 /\ Len(parsed.decisions) > 0
    /\ Reported.state = "undecidable"

\* C5: a spec_version other than "DIL:spec v0" gives state invalid, exit
\* code 1, no outcomes and the single error UNSUPPORTED_SPEC_VERSION.
C5_VersionGate ==
    (Validated /\ parsed.spec_version # "DIL:spec v0") =>
        /\ Reported.state = "invalid"
        /\ result.exit_code = 1
        /\ Reported.outcomes = <<>>
        /\ Len(Reported.errors) = 1
        /\ Reported.errors[1].code = "UNSUPPORTED_SPEC_VERSION"

\* a declared but unsupported version on a spec that would fail V-M1,
\* V-M3, V-M4 and V-M5
C5_Witness ==
    /\ Validated /\ parsed.spec_version = "DIL:spec v9"
    /\ Unassociated(parsed) # {}
    /\ \E k \in 1..Len(parsed.decisions) :
          FailingDecision(parsed, parsed.decisions[k])
    /\ MissingCapability(parsed)
    /\ MentionsSignal(parsed.raw_text)
    /\ Reported.outcomes = <<>>

\* C9: V-M1 is satisfied iff every declared intent is associated (by a
\* validations:/validation: line of its own block, or by a capability
\* validation together with a supporting decision).  Unsatisfied: the
\* targets are exactly the unassociated intents, one INTENT_NOT_VERIFIABLE
\* error each.  Satisfied: the targets are all declared intents and there
\* is no INTENT_NOT_VERIFIABLE error.
NotVerifiableFor(id) ==
    {k \in ErrorsWith("INTENT_NOT_VERIFIABLE") :
        Get(Reported.errors[k].refs, "intent").s = "intents." \o id}

Perms(seq) ==
    {[k \in 1..Len(seq) |-> seq[f[k]]] : f \in Permutations(1..Len(seq))}

\* the sequences that take their k-th element from the k-th set
RECURSIVE Choices(_)
Choices(sets) ==
    IF Len(sets) = 0 THEN {<<>>}
    ELSE {<<h>> \o t : h \in Head(sets), t \in Choices(Tail(sets))}

TargetVariants(o) == {[o EXCEPT !.targets = t] : t \in Perms(o.targets)}

RefVariants(e) == {[e EXCEPT !.refs = Obj(kv)] : kv \in Perms(e.refs.o)}

\* the reports that hold the same errors, each refs object with its keys
\* inserted in any order
RefReorderings(report) ==
    {[report EXCEPT !.errors = es] :
        es \in Choices([k \in 1..Len(report.errors) |->
                           RefVariants(report.errors[k])])}

\* the reports that hold the same outcomes and errors and differ in the
\* order of the outcomes, of the errors, of a targets list or of the keys
\* of a refs object
Reorderings(report) ==
    {[report EXCEPT !.outcomes = os, !.errors = es] :
        os \in UNION {Choices([k \in 1..Len(q) |-> TargetVariants(q[k])]) :
                         q \in Perms(report.outcomes)},
        es \in UNION {Choices([k \in 1..Len(q) |-> RefVariants(q[k])]) :
                         q \in Perms(report.errors)}}

\* C7: emitCanonicalReport returns the same string for any two reports that
\* hold the same outcomes and errors and differ only in the order of the
\* outcomes, of the errors, inside a targets list, or of an object's keys.
C7_InsertionOrderInvariant ==
    pc = "done" =>
        \A r \in Reorderings(Reported) : emitCanonicalReport(r) = stdout

\* the emitted object's lists
EmittedOutcomes == Get(canonicalObj, "outcomes").a

EmittedErrors == Get(canonicalObj, "errors").a

EmittedTargets(k) ==
    LET t == Get(EmittedOutcomes[k], "targets").a
    IN  [n \in 1..Len(t) |-> t[n].s]

Ascending(keys) ==
    \A n \in 1..(Len(keys) - 1) :
        RankOf[keys[n]] <= RankOf[keys[n + 1]]

KeysOf(value) == [k \in 1..Len(value.o) |-> value.o[k].k]

\* a before-or-equal b in the order of their atoms
AtMost(a, b) ==
    \/ \E k \in 1..Len(a) :
          /\ k <= Len(b)
          /\ \A n \in 1..(k - 1) : a[n] = b[n]
          /\ RankOf[a[k]] < RankOf[b[k]]
    \/ (Len(a) <= Len(b) /\ \A n \in 1..Len(a) : a[n] = b[n])

\* C8: in the emitted text each outcome's targets ascend, the outcomes are
\* ordered by validation_id and then by their joined sorted targets, the
\* errors are ordered by code and then by the stringification of their
\* key-sorted refs, and the key order of a refs object changes nothing.
C8_EmittedOrdering ==
    pc = "done" =>
        /\ stdout = JSONStringify(canonicalObj)
        /\ \A k \in 1..Len(EmittedOutcomes) : Ascending(EmittedTargets(k))
        /\ \A j, k \in 1..Len(EmittedOutcomes) :
              j < k =>
                LET a == Get(EmittedOutcomes[j], "validation_id").s
                    b == Get(EmittedOutcomes[k], "validation_id").s
                IN  \/ RankOf[a] < RankOf[b]
                    \/ /\ a = b
                       /\ AtMost(Join(EmittedTargets(j), NUL),
                                 Join(EmittedTargets(k), NUL))
        /\ \A k \in 1..Len(EmittedErrors) :
              Ascending(KeysOf(Get(EmittedErrors[k], "refs")))
        /\ \A j, k \in 1..Len(EmittedErrors) :
              j < k =>
                LET a == Get(EmittedErrors[j], "code").s
                    b == Get(EmittedErrors[k], "code").s
                IN  \/ RankOf[a] < RankOf[b]
                    \/ /\ a = b
                       /\ AtMost(JSONStringify(Get(EmittedErrors[j], "refs")),
                                 JSONStringify(Get(EmittedErrors[k], "refs")))
        /\ \A r \in RefReorderings(Reported) :
              emitCanonicalReport(r) = stdout

\* two errors of one code, given with the later one first and with refs
\* keys inserted in different orders, and an outcome with unsorted targets
C8_Witness ==
    /\ pc = "done"
    /\ Len(Reported.errors) = 2
    /\ Reported.errors[1].code = Reported.errors[2].code
    /\ KeysOf(Reported.errors[1].refs) = <<"decision", "intent">>
    /\ KeysOf(Reported.errors[2].refs) = <<"intent", "decision">>
    /\ Get(Reported.errors[1].refs, "decision").s = "decisions.D2"
    /\ Get(Get(EmittedErrors[1], "refs"), "decision").s = "decisions.D1"
    /\ \E k \in 1..Len(Reported.outcomes) :
          Reported.outcomes[k].targets = <<"intents.I2", "intents.I1">>

\* the line of the text that opens the system block
SystemLine(text) ==
    CHOOSE k \in 1..Len(text) :
        /\ Lex[text[k]].kind = "system"
        /\ \A j \in 1..(k - 1) : Lex[text[j]].kind # "system"

RECURSIVE Net(_, _, _)
Net(text, from, to) ==
    IF from > to THEN 0
    ELSE Lex[text[to]].opens - Lex[text[to]].closes + Net(text, from, to - 1)

\* the number of blocks open when line k of the text begins
OpenAt(text, k) == Net(text, SystemLine(text), k - 1)

\* line j opens an intents section of the system block, and line k is a
\* line of that section
InIntentsSection(text, j, k) ==
    /\ SystemLine(text) < j /\ j < k
    /\ \A m \in (SystemLine(text) + 1)..j : OpenAt(text, m) >= 1
    /\ OpenAt(text, j) = 1
    /\ Lex[text[j]].kind = "section" /\ Lex[text[j]].id = "intents"
    /\ \A m \in (j + 1)..k : OpenAt(text, m) >= 2

\* the text has an intents section in which the block of intent id (from
\* its intent line to the next intent line or the end of the section)
\* holds a validations: line
TextAssociates(text, id) ==
    \E j, b, k \in 1..Len(text) :
        /\ j < b /\ b < k
        /\ InIntentsSection(text, j, k)
        /\ Lex[text[b]].kind = "intent" /\ Lex[text[b]].id = id
        /\ \A m \in (b + 1)..(k - 1) : Lex[text[m]].kind # "intent"
        /\ Lex[text[k]].kind = "association"

\* C10: parseDil then validateCore on a text of supported version: an
\* intent whose block inside an intents section holds a validations: line
\* is no target of an unsatisfied V-M1 outcome and gets no
\* INTENT_NOT_VERIFIABLE error, whatever the validations declare.
C10_ExplicitAssociationVerifiable ==
    (Passed /\ pc = "done") =>
        \A id \in {"I1", "I2"} :
            TextAssociates(file.content, id) =>
                /\ ~("unsatisfied" \in StatusOf("V-M1")
                      /\ ("intents." \o id) \in TargetsOf("V-M1"))
                /\ NotVerifiableFor(id) = {}

\* the first id of list that map does not declare, or the placeholder
FirstUnresolved(list, map, placeholder) ==
    LET open == {k \in 1..Len(list) : list[k] \notin Declared(map)}
    IN  IF open = {} THEN placeholder
        ELSE list[CHOOSE k \in open : \A j \in open : k <= j]

BrokenReferencesOf(d) ==
    {k \in ErrorsWith("BROKEN_REFERENCE") :
        /\ HasKey(Reported.errors[k].refs, "decision")
        /\ Get(Reported.errors[k].refs, "decision").s = "decisions." \o d.id}

Unresolved(p, d) ==
    \/ ~(Elements(d.supports) \subseteq Declared(p.intents))
    \/ ~(Elements(d.respects) \subseteq Declared(p.constraints))

C12_DecisionMustRespect ==
    Passed =>
        ((\E n \in 1..Len(parsed.decisions) :
             \/ Len(parsed.decisions[n].respects) = 0
             \/ Len(parsed.decisions[n].supports) = 0)
           => Reported.state # "valid")

\* the validations, in declaration order, whose capability is not declared
CannotRun(p) ==
    {k \in 1..Len(p.validations) :
        /\ p.validations[k].requires_capability # ""
        /\ p.validations[k].requires_capability \notin Elements(p.capabilities)}

OutcomeOf(id) ==
    Reported.outcomes[CHOOSE k \in 1..Len(Reported.outcomes) :
                          Reported.outcomes[k].validation_id = id]

\* C13: V-M4 is unknown iff some validation requires a capability that is
\* not declared; its targets are then exactly the validations that cannot
\* run and its reason names the first of them, in declaration order, with
\* its capability.  Otherwise V-M4 is satisfied with no targets and no
\* reason.
C13_CapabilityCoverage ==
    Passed =>
        /\ Cardinality({k \in 1..Len(Reported.outcomes) :
                           Reported.outcomes[k].validation_id = "V-M4"}) = 1
        /\ (OutcomeOf("V-M4").status = "unknown") <=> (CannotRun(parsed) # {})
        /\ CannotRun(parsed) # {} =>
              LET first == CHOOSE k \in CannotRun(parsed) :
                              \A j \in CannotRun(parsed) : k <= j
              IN  /\ Elements(OutcomeOf("V-M4").targets) =
                        {"validations." \o parsed.validations[k].id :
                            k \in CannotRun(parsed)}
                  /\ Len(OutcomeOf("V-M4").targets) =
                        Cardinality(CannotRun(parsed))
                  /\ OutcomeOf("V-M4").reason =
                        "Validation validations."
                        \o parsed.validations[first].id
                        \o " requires undeclared capability '"
                        \o parsed.validations[first].requires_capability
                        \o "'."
        /\ CannotRun(parsed) = {} =>
              /\ OutcomeOf("V-M4").status = "satisfied"
              /\ OutcomeOf("V-M4").targets = <<>>
              /\ OutcomeOf("V-M4").reason = ""
        /\ pc = "done" =>
              \A k \in 1..Len(EmittedOutcomes) :
                  Get(EmittedOutcomes[k], "validation_id").s = "V-M4" =>
                      (HasKey(EmittedOutcomes[k], "reason")
                          <=> CannotRun(parsed) # {})

\* two validations that cannot run, the second declared one being V1; the
\* reason names V2 and its capability
C13_Witness ==
    /\ Passed /\ pc = "done"
    /\ Len(parsed.validations) = 2
    /\ parsed.validations[1] = Validation("V2", "y")
    /\ parsed.validations[2] = Validation("V1", "x")
    /\ parsed.capabilities = <<>>
    /\ OutcomeOf("V-M4").status = "unknown"
    /\ OutcomeOf("V-M4").targets = <<"validations.V2", "validations.V1">>
    /\ OutcomeOf("V-M4").reason =
          "Validation validations.V2 requires undeclared capability 'y'."

\* C14: when the raw text names a signal token anywhere, in any letter
\* case, V-M5 is unsatisfied, an IMPLEMENTATION_LEAK error is emitted and the
\* state is invalid; when it names none, V-M5 is satisfied and there is no
\* IMPLEMENTATION_LEAK error.  The V-M5 targets are ["system"] in both cases.
C14_LeakSignals ==
    Passed =>
        /\ OutcomeOf("V-M5").targets = <<"system">>
        /\ MentionsSignal(parsed.raw_text) =>
              /\ OutcomeOf("V-M5").status = "unsatisfied"
              /\ ErrorsWith("IMPLEMENTATION_LEAK") # {}
              /\ Reported.state = "invalid"
        /\ ~MentionsSignal(parsed.raw_text) =>
              /\ OutcomeOf("V-M5").status = "satisfied"
              /\ ErrorsWith("IMPLEMENTATION_LEAK") = {}

\* the errors the other rules account for: one for each unassociated
\* intent, one for each failing decision, one for a leak
ErrorsOfOtherRules(p) ==
    Cardinality(Unassociated(p))
    + Cardinality({k \in 1..Len(p.decisions) :
                      FailingDecision(p, p.decisions[k])})
    + (IF MentionsSignal(p.raw_text) THEN 1 ELSE 0)

FirstContentLine(text) ==
    CHOOSE k \in 1..Len(text) :
        /\ Lex[text[k]].text # ""
        /\ \A j \in 1..(k - 1) : Lex[text[j]].text = ""

HasContent(text) == \E k \in 1..Len(text) : Lex[text[k]].text # ""

BadHeader(text) ==
    HasContent(text) /\ Lex[text[FirstContentLine(text)]].kind # "header"

NoSystemDeclared(text) ==
    \A k \in 1..Len(text) : Lex[text[k]].kind # "system"

\* parseDil has returned the ParsedSpec in `parsed`
Returned == pc = "validate" /\ file.status = "readable"

ParsedAsClaimed ==
    /\ BadHeader(file.content) =>
          /\ parsed.spec_version = "unknown"
          /\ \E k \in 1..Len(parsed.issues) :
                parsed.issues[k].line = FirstContentLine(file.content)
    /\ NoSystemDeclared(file.content) =>
          /\ parsed.system_id = "unknown"
          /\ \E k \in 1..Len(parsed.issues) :
                parsed.issues[k].message =
                   "Missing system declaration. Expected: system \"ID\" { ... }"
    /\ \A k \in 1..Len(parsed.issues) :
          /\ parsed.issues[k].fatal = FALSE
          /\ parsed.issues[k].code = "PARSE_ERROR"
    \* the scan took place: it reached the end of the text or the end of
    \* the system block, and the intents of an intents section are recorded
    /\ (i > Len(file.content) \/ (inSystem /\ braceDepth <= 0))
    /\ \A j, b \in 1..Len(file.content) :
          (/\ ~NoSystemDeclared(file.content)
           /\ InIntentsSection(file.content, j, b)
           /\ Lex[file.content[b]].kind = "intent")
             => Lex[file.content[b]].id \in Declared(parsed.intents)
    /\ parsed.raw_text = file.content

\* C16: parseDil terminates on every text and returns a ParsedSpec: a first
\* content line that is no DIL:spec header leaves spec_version "unknown"
\* and adds an issue, a missing system declaration leaves system_id
\* "unknown" and adds an issue, the scan of the lines takes place all the
\* same, and every issue is non-fatal.
C16_ParserNeverFails ==
    /\ [](Returned => ParsedAsClaimed)
    /\ <>(pc = "validate")

\* a text with a bad header line whose intents section is scanned all the
\* same
C16_Witness ==
    /\ Returned
    /\ BadHeader(file.content)
    /\ parsed.spec_version = "unknown"
    /\ parsed.system_id = "S"
    /\ Declared(parsed.intents) = {"I1"}
    /\ Len(parsed.issues) = 1

\* C17: parseDil, validateCore and emitCanonicalReport leave their inputs
\* as they were: the text while it is parsed, every field of the ParsedSpec
\* across validateCore, and the report's outcomes, errors, targets and refs
\* across emitCanonicalReport.
C17_InputsUnchanged ==
    [][/\ (pc # "start" => raw' = raw)
       /\ (pc = "validate" => parsed' = parsed)
       /\ (pc = "emit" => result' = result)]_vars

\* a report whose targets and errors the emission reorders in its output,
\* after the whole pipeline has run on a text declaring I2 before I1
C17_Witness ==
    /\ pc = "done" /\ file.status = "readable"
    /\ raw = file.content
    /\ Ids(parsed.intents) = <<"I2", "I1">>
    /\ result = validateCore(parsed)
    /\ Reported.outcomes[1].targets = <<"intents.I2", "intents.I1">>
    /\ EmittedTargets(1) = <<"intents.I1", "intents.I2">>
    /\ Len(Reported.errors) = 2
    /\ Get(Get(EmittedErrors[1], "refs"), "intent").s
          = Get(Reported.errors[2].refs, "intent").s
    /\ Get(Reported.errors[1].refs, "intent").s = "intents.I2"

\* verify has written its receipt
Verified == vpc = "done" /\ receipt.written

AnyCheck(status) == \E n \in 1..Len(checks) : checks[n].status = status

\* C18: the aggregate state of a verification run is unverified with exit
\* code 1 when some check failed, else unknown with exit code 2 when some
\* check is unknown, else verified with exit code 0; a failed check
\* outweighs any number of unknown checks.
C18_AggregateState ==
    Verified =>
        /\ AnyCheck("failed") =>
              receipt.state = "unverified" /\ receipt.exitCode = 1
        /\ (~AnyCheck("failed") /\ AnyCheck("unknown")) =>
              receipt.state = "unknown" /\ receipt.exitCode = 2
        /\ (~AnyCheck("failed") /\ ~AnyCheck("unknown")) =>
              receipt.state = "verified" /\ receipt.exitCode = 0
        /\ Len(receipt.checks) = Len(checks)
        /\ \A n \in 1..Len(checks) :
              \E m \in 1..Len(checks) : receipt.checks[m] = checks[n]

\* a run with an unknown check recorded before a failed one
C18_Witness ==
    /\ Verified
    /\ Len(checks) = 2
    /\ checks[1].status = "unknown"
    /\ checks[2].status = "failed"
    /\ receipt.state = "unverified"
    /\ receipt.exitCode = 1

\* the predicate text of the validation a recorded check belongs to
TextOf(check) == predicateOf(vin.predicates, check.check_id[2])

\* the tokens of a predicate text after its capability
ParamTokens(text) == Elements(Tail(tokensOf(text)))

KeyOf(token) == SubSeq(token, 1, indexOfEq(token) - 1)

\* the keys a predicate text gives a value to
KeysIn(text) ==
    {KeyOf(token) : token \in {t \in ParamTokens(text) : indexOfEq(t) > 1}}

KnownKeys(capability) ==
    IF capability = "check_file_exists"
    THEN {"path", "type", "min_size_bytes"}
    ELSE IF capability = "check_command_exit"
    THEN {"cmd", "args", "expected_exit", "timeout_ms"}
    ELSE {"url", "method", "expected_status", "timeout_ms"}

RequiredKeys(capability) ==
    IF capability = "check_file_exists" THEN {"path"}
    ELSE IF capability = "check_command_exit" THEN {"cmd", "args"}
    ELSE {"url"}

UnknownKeysIn(check) ==
    {key \in KeysIn(TextOf(check)) :
        \A w \in KnownKeys(check.capability) : key # <<w>>}

MissingKeysIn(check) ==
    {w \in RequiredKeys(check.capability) : <<w>> \notin KeysIn(TextOf(check))}

MalformedTokensIn(check) ==
    {t \in ParamTokens(TextOf(check)) : indexOfEq(t) = 0}

\* statSync, spawn or request was called for the check
Executed(check) ==
    \E n \in 1..Len(calls) : calls[n].id = check.check_id[2]

\* C19: a check whose predicate holds a key outside the known keys of its
\* capability is unknown with reason unknown_key:<key>; one that lacks a
\* required key is unknown with reason missing_required_key:<key>; one
\* that holds a token without "=" is unknown with reason
\* malformed_token:<token>; in each case the check is never executed.
C19_ParamDefects ==
    \A n \in 1..Len(checks) :
        LET check == checks[n]
        IN  /\ UnknownKeysIn(check) # {} =>
                  /\ check.status = "unknown"
                  /\ check.reason \in {<<"unknown_key:">> \o key :
                                          key \in UnknownKeysIn(check)}
                  /\ ~Executed(check)
            /\ MissingKeysIn(check) # {} =>
                  /\ check.status = "unknown"
                  /\ check.reason \in {<<"missing_required_key:", w>> :
                                          w \in MissingKeysIn(check)}
                  /\ ~Executed(check)
            /\ MalformedTokensIn(check) # {} =>
                  /\ check.status = "unknown"
                  /\ check.reason \in {<<"malformed_token:">> \o t :
                                          t \in MalformedTokensIn(check)}
                  /\ ~Executed(check)

\* the timeout of an asynchronous check has come before any result: the
\* timer callback of a command check has run, or the 'timeout' event of an
\* HTTP check has been handled first
TimedOutFirst(op) == op.timedOut

SelectedChecks ==
    filteredChecks(verificationChecks(vin.validations, vin.predicates),
                   vin.options)

SelectedIds == {SelectedChecks[n].validationId : n \in 1..Len(SelectedChecks)}

\* the calls made for a validation
CallsFor(id) == {n \in 1..Len(calls) : calls[n].id = id}

EntriesFor(cs, id) == {n \in 1..Len(cs) : cs[n].check_id[2] = id}

\* the spawn and request calls, in the order of the asynchronous checks
AsyncCalls == SelectSeq(calls, LAMBDA c : c.fn # "statSync")

ParamsAccepted(c) ==
    /\ parsePredicateParams(c.predicateText, c.capability).ok
    /\ validateParams(c.capability,
          parsePredicateParams(c.predicateText, c.capability).params).ok

OncePerCheck ==
    /\ \A id \in SelectedIds :
          /\ Cardinality(CallsFor(id)) <= 1
          /\ Cardinality(EntriesFor(checks, id)) <= 1
    /\ \A n \in 1..Len(calls) : calls[n].id \in SelectedIds
    /\ \A n \in 1..Len(checks) : checks[n].check_id[2] \in SelectedIds
    /\ Len(AsyncCalls) = Len(ops)
    /\ \A k \in 1..Len(ops) :
          \A n \in EntriesFor(checks, AsyncCalls[k].id) :
              /\ ops[k].resolved
              /\ checks[n].status = ops[k].result.status
              /\ checks[n].reason = ops[k].result.reason
    /\ Verified =>
          /\ Len(checks) = Len(SelectedChecks)
          /\ \A n \in 1..Len(SelectedChecks) :
                LET id == SelectedChecks[n].validationId
                IN  /\ Cardinality(EntriesFor(receipt.checks, id)) = 1
                    /\ Cardinality(CallsFor(id))
                          = IF ParamsAccepted(SelectedChecks[n]) THEN 1 ELSE 0

ResultsKept ==
    /\ \A k \in 1..Len(ops) :
          ops[k].resolved =>
              ops'[k].resolved /\ ops'[k].result = ops[k].result
    /\ \A n \in 1..Len(checks) : checks'[n] = checks[n]
    /\ \A n \in 1..Len(calls) : calls'[n] = calls[n]

\* C21: in one verification run every selected check is run once (one
\* statSync, spawn or request call when its params are accepted, none
\* otherwise) and gives one entry of the receipt; the result of a check is
\* that of the first event that records one, and no later event changes
\* it or adds an entry.
C21_OncePerCheck == []OncePerCheck /\ [][ResultsKept]_vars

\* a command check failed by an 'error' event, after which its 'close'
\* arrived and the receipt was written
C21_Witness ==
    /\ Verified
    /\ Len(ops) = 2
    /\ ops[1].kind = "command" /\ ~ops[1].open
    /\ ops[1].result.reason = <<"command_not_found">>
    /\ ops[2].kind = "http" /\ ops[2].timedOut /\ ~ops[2].open
    /\ Len(receipt.checks) = 2

\* a validation that asks for a capability and carries a predicate
IsVerificationCheck(v) ==
    v.requires_capability # Null /\ predicateOf(vin.predicates, v.id) # <<>>

Undeclared(capability) ==
    \A n \in 1..Len(vin.capabilities) : vin.capabilities[n] # capability

\* C22: a verification check whose capability is not declared in the
\* capabilities block of the spec, or is not one of the verifier's
\* capabilities, is in the receipt with status unknown: it is neither run
\* nor left out.
C22_UndeclaredCapabilityUnknown ==
    (Verified /\ vin.options = NoOptions) =>
        \A n \in 1..Len(vin.validations) :
            LET v == vin.validations[n]
            IN  (/\ IsVerificationCheck(v)
                 /\ \/ Undeclared(v.requires_capability)
                    \/ v.requires_capability \notin VERIFICATION_CAPABILITIES)
                => /\ \E m \in EntriesFor(receipt.checks, v.id) :
                         receipt.checks[m].status = "unknown"
                   /\ CallsFor(v.id) = {}

(***************************************************************************)
(* Claims about the run and agent commands, stated on SpecAgent.           *)
(***************************************************************************)

\* the command has been spawned, or a pass has been started
Started ==
    spawns > 0 \/ loop.totalPasses > 0 \/ apc \in {"spawned", "running"}

\* C23: run and agent spawn the command only after validation has exited
\* 0: when validation exits 1 or 2 the command is never spawned, no pass
\* is started, and the exit code returned is that of the validator.
C23_ValidationGate ==
    /\ Started => validation = 0
    /\ validation \in {1, 2} =>
          /\ spawns = 0 /\ passes = <<>> /\ loop.totalPasses = 0
          /\ apc = "done" /\ aexit = validation
          /\ written = {}

C23_Witness ==
    /\ ain.command = "agent" /\ validation = 2
    /\ apc = "done" /\ aexit = 2 /\ spawns = 0

\* the gates of the spec: the prefixes V_GATE_NN_ of its validation ids
GatesOfSpec ==
    {gateMatch(ain.input.validations[n].id) :
        n \in 1..Len(ain.input.validations)} \ {Null}

\* the gate of every pass started so far, the one that runs included
GatesAttempted ==
    [n \in 1..Len(passes) |-> passes[n].gate]
    \o (IF apc = "running" THEN <<gateOption[1]>> ELSE <<>>)

\* the gate of pass n ended passed before pass n + 1 was started
PassedBefore(g, n) ==
    \E j \in 1..(n - 1) :
        /\ j <= Len(passes)
        /\ passes[j].gate = g /\ passes[j].gateStatus = "passed"

GatesInOrder ==
    LET at == GatesAttempted
    IN  /\ \A j, k \in 1..Len(at) :
              j < k => gateNum(at[j]) <= gateNum(at[k])
        /\ \A k \in 1..Len(at) : \A g \in GatesOfSpec :
              gateNum(g) < gateNum(at[k]) => PassedBefore(g, k)
        /\ \A k \in 2..Len(at) :
              \/ at[k] = at[k - 1]
              \/ passes[k - 1].gateStatus = "passed"
        /\ \A k \in 1..Len(passes) :
              passes[k].gateStatus = "failed" => k = Len(at)

\* C24: in gated mode the gates are taken in ascending numeric order, a
\* pass of a gate is started only when every gate of a lower number has
\* ended passed, and after the first gate that ends failed or unknown no
\* other gate is attempted.
C24_GatesInOrder == GatesOfSpec # {} => GatesInOrder

C24_Witness ==
    /\ Len(ain.input.validations) = 2
    /\ ain.input.validations[1].id = "V_GATE_10_A"
    /\ ain.input.validations[2].id = "V_GATE_01_A"
    /\ Len(passes) = 3
    /\ passes[1].gate = "V_GATE_01_" /\ passes[1].gateStatus = "unknown"
    /\ passes[2].gate = "V_GATE_01_" /\ passes[2].gateStatus = "passed"
    /\ passes[3].gate = "V_GATE_10_" /\ passes[3].gateStatus = "failed"
    /\ apc = "done"

\* the passes started for a gate, the one that runs included
AttemptsOf(g) == {k \in 1..Len(GatesAttempted) : GatesAttempted[k] = g}

\* C25: a gate is attempted at most 3 times; an attempt after the first
\* follows only an attempt of that gate that ended unknown_agent_crash or
\* unknown_transient; an attempt that ends verification_failed,
\* unknown_verifier_limit or unknown_internal is the last attempt of the
\* run.
C25_RetryPolicy ==
    GatesOfSpec # {} =>
        /\ \A g \in GatesOfSpec : Cardinality(AttemptsOf(g)) <= 3
        /\ \A k \in 2..Len(GatesAttempted) :
              GatesAttempted[k] = GatesAttempted[k - 1] =>
                 passes[k - 1].failureKind
                    \in {"unknown_agent_crash", "unknown_transient"}
        /\ \A k \in 1..Len(passes) :
              passes[k].failureKind
                 \in {"verification_failed", "unknown_verifier_limit",
                      "unknown_internal"}
              => k = Len(GatesAttempted)
        /\ \A k \in 1..Len(passes) :
              passes[k].attempt
                 = Cardinality({j \in AttemptsOf(passes[k].gate) : j <= k})

C25_Witness ==
    /\ Len(passes) = 3
    /\ \A k \in 1..3 : passes[k].gate = "V_GATE_01_"
    /\ passes[1].failureKind = "unknown_agent_crash"
    /\ passes[2].failureKind = "unknown_transient"
    /\ passes[3].failureKind = "unknown_transient"
    /\ apc = "done"

\* agent has returned from its last step with an exit code
Completed ==
    /\ ain.command = "agent" /\ apc = "done"
    /\ "run_receipt.json" \in written

\* C26: agent returns exit code 0 only if verification.json, the final
\* verification receipt of the run, records the state verified; in gated
\* mode that receipt is the final full verification, so a failed or
\* unknown check outside the gates prevents exit code 0.
C26_ExitZeroOnlyIfVerified ==
    (Completed /\ aexit = 0) => dir.verification = <<"verified">>

\* C27: if the hash of the spec after some pass differs from the hash
\* recorded before the first pass, the run ends with exit code 2, never 0
\* or 1.
C27_SpecChangeIsUnknown ==
    (Completed /\ loop.changed) => aexit = 2

\* the three final states and their exit codes
FinalStates ==
    {[final_state |-> "completed_verified", exit_code |-> 0],
     [final_state |-> "completed_unverified", exit_code |-> 1],
     [final_state |-> "completed_unknown", exit_code |-> 2]}

\* C28: a run that has made its run directory and written agent.started
\* ends in one of the three final states, and when agent has ended
\* run_receipt.json (final_state and the matching exit_code),
\* verification.json and agent.finished have been written by that run,
\* with no exception.
C28_FinalStatePersisted ==
    (ain.command = "agent" /\ "agent.started" \in written /\ aexit # -1) =>
        /\ {"run_receipt.json", "verification.json", "agent.finished"}
              \subseteq written
        /\ dir.run_receipt # <<>>
        /\ dir.run_receipt[1] \in FinalStates
        /\ dir.run_receipt[1].exit_code = aexit
        /\ dir.finished = <<aexit>>

\* the exit code of a run of one pass whose process ended as sr and
\* whose verification wrote the receipt r
ExitOfPass(sr, r) ==
    finalOutcome(
        SinglePassResult(sr, loop.specHashBefore, loop.last.specHashAfter,
                         r).gateStatus,
        IF r.written /\ r.state \in {"verified", "unverified"}
        THEN r.state ELSE "unknown").exit_code

\* C29: the final state and the exit code depend on the verifier outcomes
\* only: with the spec unchanged and the same verification receipt, a
\* run ends with the same exit code whatever the agent process wrote to
\* stderr, whatever exit code it returned and however long it ran.
C29_VerifierOutcomesOnly ==
    (Completed /\ ~hasGates /\ ~loop.changed) =>
        \A sr \in SpawnResults : ExitOfPass(sr, loop.last.receipt) = aexit

\* C30: in a run directory, while agent.exit_code holds -1 agent.finished
\* does not exist, and agent.finished exists only when the run that last
\* wrote agent.exit_code has completed.
C30_LifecycleTruth ==
    /\ dir.exit_code = <<-1>> => dir.finished = <<>>
    /\ dir.finished # <<>> =>
          \/ "agent.exit_code" \notin written
          \/ apc = "done" /\ "agent.finished" \in written

\* parseDil is about to scan line i of the text inside the system block
Scanning == pc = "scan" /\ inSystem /\ i <= Len(raw)

\* the line about to be scanned names a known section followed by '{'
NamesSection == Lex[raw[i]].kind = "section"

\* the keys of sections_raw and the text kept under each of them
RawKeys(sp) == DOMAIN sp.sections_raw

\* C31 as it is worded: a section line met at a depth other than 1
\* changes neither the current section nor sections_raw.
C31_NoEffectOffDepthOne ==
    [][(Scanning /\ NamesSection /\ OpenAt(raw, i) # 1)
          => /\ currentSection' = currentSection
             /\ spec'.sections_raw = spec.sections_raw]_vars

\* C31: parseDil opens a section only on a line naming one of the known
\* sections followed by '{' while the depth before the line is exactly 1,
\* and then the section becomes current and its raw text restarts at that
\* line; at any other depth such a line opens nothing: the current section
\* stays, no key of sections_raw is added or reset, and the line is only
\* appended to the raw text of the section it lies in, if any; a block of
\* unknown name at depth 1 opens no section and leaves sections_raw as it
\* was, while its brace raises the depth.
C31_SectionOnlyAtDepthOne ==
    [][Scanning =>
          /\ braceDepth = OpenAt(raw, i)
          /\ (NamesSection /\ OpenAt(raw, i) = 1)
                => /\ currentSection' = Lex[raw[i]].id
                   /\ sectionDepth' = 2
                   /\ RawKeys(spec') = RawKeys(spec) \cup {Lex[raw[i]].id}
                   /\ spec'.sections_raw[Lex[raw[i]].id] = <<raw[i]>>
                   /\ \A s \in RawKeys(spec) \ {Lex[raw[i]].id} :
                         spec'.sections_raw[s] = spec.sections_raw[s]
          /\ ~(NamesSection /\ OpenAt(raw, i) = 1)
                => /\ currentSection' \in {currentSection, "unknown"}
                   /\ RawKeys(spec') = RawKeys(spec)
                   /\ \A s \in RawKeys(spec) :
                         spec'.sections_raw[s] =
                            IF s = currentSection
                            THEN Append(spec.sections_raw[s], raw[i])
                            ELSE spec.sections_raw[s]
          /\ (NamesSection /\ OpenAt(raw, i) # 1)
                => currentSection' = currentSection
          /\ (raw[i] = "extras {" /\ OpenAt(raw, i) = 1)
                => /\ currentSection = "unknown"
                   /\ currentSection' = "unknown"
                   /\ spec'.sections_raw = spec.sections_raw
                   /\ braceDepth' = 2]_vars

\* an intents line was scanned at depth 2, inside the decisions section:
\* decisions stays current, no intents section exists, the line is kept
\* in the raw text of decisions
C31_Witness ==
    /\ pc = "scan" /\ i = 5
    /\ SubSeq(raw, 3, 4) = <<"decisions {", "intents {">>
    /\ currentSection = "decisions"
    /\ braceDepth = 3
    /\ RawKeys(spec) = {"decisions"}
    /\ spec.sections_raw["decisions"] = <<"decisions {", "intents {">>

\* the depth counted on the text has come back to 0 or below on some line
\* from the system line to line k - 1
ClosedBefore(text, k) ==
    \E m \in SystemLine(text)..(k - 1) : OpenAt(text, m + 1) <= 0

\* C32: once the brace depth has returned to 0 after the system block was
\* entered, the scan stops: no later line is scanned, none adds or changes
\* a capability, intent, constraint, decision or validation, none is
\* appended to sections_raw.
C32_ScanStopsAtSystemEnd ==
    [][(pc = "scan" /\ inSystem /\ ClosedBefore(raw, i))
          => (spec' = spec /\ i' = i)]_vars

\* line k of the text is reached by the scan of the system block
ScannedAt(text, k) ==
    /\ SystemLine(text) < k /\ k <= Len(text)
    /\ \A m \in (SystemLine(text) + 2)..k : OpenAt(text, m) >= 1

\* line j opens a section called name and line k (j itself or a later
\* line) is scanned while that section is the current one
InSection(text, name, j, k) ==
    /\ j <= k /\ ScannedAt(text, k)
    /\ OpenAt(text, j) = 1
    /\ Lex[text[j]].kind = "section" /\ Lex[text[j]].id = name
    /\ \A m \in (j + 1)..k : OpenAt(text, m) >= 2

SectionLines(text, name) ==
    {k \in 1..Len(text) : \E j \in 1..k : InSection(text, name, j, k)}

\* the lines of the text at the indices K, in input order, up to line n
RECURSIVE LinesAt(_, _, _)
LinesAt(text, K, n) ==
    IF n = 0 THEN <<>>
    ELSE IF n \in K THEN Append(LinesAt(text, K, n - 1), text[n])
    ELSE LinesAt(text, K, n - 1)

\* C33: every line scanned while parseDil is inside a recognized section
\* is present, verbatim and in input order, in sections_raw[section] when
\* parsing ends; in particular the line that declared each intent of the
\* intents map is contained in sections_raw["intents"].
C33_SectionsRawComplete ==
    Returned =>
        /\ \A name \in SectionNames :
              SectionLines(file.content, name) # {} =>
                 /\ name \in DOMAIN parsed.sections_raw
                 /\ parsed.sections_raw[name] =
                       LinesAt(file.content, SectionLines(file.content, name),
                               Len(file.content))
        /\ \A k \in 1..Len(parsed.intents) :
              /\ "intents" \in DOMAIN parsed.sections_raw
              /\ \E n \in 1..Len(parsed.sections_raw["intents"]) :
                    /\ Lex[parsed.sections_raw["intents"][n]].kind = "intent"
                    /\ Lex[parsed.sections_raw["intents"][n]].id =
                          parsed.intents[k].id

\* the constraints map with the severity of its entry n set to value
WithSeverity(map, n, value) ==
    [k \in 1..Len(map) |->
        IF k = n THEN [map[k] EXCEPT !.severity = value] ELSE map[k]]

\* C34: in the constraints section a severity: line sets the severity of
\* the constraint that is last in the insertion order of the constraints
\* map at that moment, which need not be the constraint whose block holds
\* the line; it changes no other constraint, and nothing when no
\* constraint is registered yet; outside the constraints section such a
\* line changes no constraint.
C34_SeverityToLastRegistered ==
    [][(Scanning /\ Lex[raw[i]].kind = "severity") =>
          IF currentSection = "constraints" /\ Len(spec.constraints) > 0
          THEN spec'.constraints =
                  WithSeverity(spec.constraints, Len(spec.constraints),
                               Lex[raw[i]].id)
          ELSE spec'.constraints = spec.constraints]_vars

\* C1 and C2 are registered, the block of C1 is declared again and holds
\* the severity line: the severity went to C2, C1 has none
C34_Witness ==
    /\ pc = "scan" /\ i = 8
    /\ SubSeq(raw, 3, 7) = <<"constraints {", "constraint C1 {", "constraint C2 {", "constraint C1 {", "severity: HARD">>
    /\ currentSection = "constraints"
    /\ Ids(spec.constraints) = <<"C1", "C2">>
    /\ spec.constraints[1].severity = Null
    /\ spec.constraints[2].severity = "HARD"

\* the line that opened the section block in which line k of the text is
\* scanned, 0 when line k is scanned outside every section called name
BlockOf(text, name, k) ==
    IF \E j \in 1..k : InSection(text, name, j, k)
    THEN CHOOSE j \in 1..k : InSection(text, name, j, k)
    ELSE 0

\* the id named by the most recent line of the kind (decision, validate)
\* before line k inside the section block of line k, Null when none
CursorAt(text, name, kind, k) ==
    LET j == BlockOf(text, name, k)
        named == {m \in (j + 1)..(k - 1) : Lex[text[m]].kind = kind}
    IN  IF j = 0 \/ named = {} THEN Null
        ELSE Lex[text[CHOOSE m \in named : \A n \in named : n <= m]].id

\* the map with one field of the entry called id replaced
WithSupports(map, id, list) ==
    [k \in 1..Len(map) |->
        IF map[k].id = id THEN [map[k] EXCEPT !.supports = list] ELSE map[k]]

WithRespects(map, id, list) ==
    [k \in 1..Len(map) |->
        IF map[k].id = id THEN [map[k] EXCEPT !.respects = list] ELSE map[k]]

WithCapability(map, id, cap) ==
    [k \in 1..Len(map) |->
        IF map[k].id = id THEN [map[k] EXCEPT !.requires_capability = cap]
        ELSE map[k]]

\* C35: inside a decisions section a supports: or respects: line modifies
\* only the decision named by the most recent decision line of the same
\* section block, and inside a validations section a requires_capability:
\* line modifies only the validation named by the most recent validate
\* line; the cursors are cleared when a section is entered or exited, so
\* such a line before any decision or validate line of its section block
\* modifies nothing.
C35_AttributesFollowCursor ==
    [][Scanning =>
          LET d == CursorAt(raw, "decisions", "decision", i)
              v == CursorAt(raw, "validations", "validate", i)
          IN  /\ Lex[raw[i]].kind = "supports" =>
                    spec'.decisions =
                       WithSupports(spec.decisions, d, Lex[raw[i]].list)
              /\ Lex[raw[i]].kind = "respects" =>
                    spec'.decisions =
                       WithRespects(spec.decisions, d, Lex[raw[i]].list)
              /\ Lex[raw[i]].kind = "requires_capability" =>
                    spec'.validations =
                       WithCapability(spec.validations, v, Lex[raw[i]].id)
              /\ currentDecisionId = d
              /\ currentValidationId = v
              /\ (d # Null => Has(spec.decisions, d))
              /\ (v # Null => Has(spec.validations, v))]_vars

\* D1 is declared in a decisions section that is closed; the supports line
\* of a second decisions section, before any decision line, leaves D1 as
\* it was
C35_Witness ==
    /\ pc = "scan" /\ i = 8
    /\ SubSeq(raw, 3, 7) = <<"decisions {", "decision D1", "}", "decisions {", "supports: [I1]">>
    /\ currentSection = "decisions"
    /\ currentDecisionId = Null
    /\ Len(spec.decisions) = 1
    /\ spec.decisions[1] = Decision("D1", <<>>, <<>>)

\* the lines of the kind (intent, constraint, decision, validate) scanned
\* inside a section called name, and the ids they name in input order
\* without repetitions
DeclaringLines(text, name, kind) ==
    {k \in SectionLines(text, name) : Lex[text[k]].kind = kind}

RECURSIVE FirstDeclared(_, _, _)
FirstDeclared(text, K, n) ==
    IF n = 0 THEN <<>>
    ELSE LET before == FirstDeclared(text, K, n - 1)
         IN  IF n \in K
                /\ \A k \in 1..Len(before) : before[k] # Lex[text[n]].id
             THEN Append(before, Lex[text[n]].id)
             ELSE before

DeclaredInOrder(text, name, kind) ==
    FirstDeclared(text, DeclaringLines(text, name, kind), Len(text))

\* the line about to be scanned declares an id the map already holds
Repeats(name, kind, map) ==
    /\ Scanning /\ currentSection = name
    /\ Lex[raw[i]].kind = kind
    /\ Has(map, Lex[raw[i]].id)

\* C36: each artifact map holds each id at most once and iterates in the
\* order of first declaration; an intent, constraint, decision or validate
\* line whose id is already registered adds no second entry, does not
\* replace the entry and does not move it.
C36_FirstDeclarationWins ==
    /\ [](pc \in {"scan", "scanned", "validate"} =>
            /\ NoDupIds(spec.intents) /\ NoDupIds(spec.constraints)
            /\ NoDupIds(spec.decisions) /\ NoDupIds(spec.validations))
    /\ [](Returned =>
            /\ Ids(parsed.intents) =
                  DeclaredInOrder(file.content, "intents", "intent")
            /\ Ids(parsed.constraints) =
                  DeclaredInOrder(file.content, "constraints", "constraint")
            /\ Ids(parsed.decisions) =
                  DeclaredInOrder(file.content, "decisions", "decision")
            /\ Ids(parsed.validations) =
                  DeclaredInOrder(file.content, "validations", "validate"))
    /\ [][/\ Repeats("intents", "intent", spec.intents)
                => spec'.intents = spec.intents
          /\ Repeats("constraints", "constraint", spec.constraints)
                => spec'.constraints = spec.constraints
          /\ Repeats("decisions", "decision", spec.decisions)
                => spec'.decisions = spec.decisions
          /\ Repeats("validations", "validate", spec.validations)
                => spec'.validations = spec.validations]_vars

\* D1 with its supports and D2 are registered, D1 is declared again: the
\* map still holds D1 with its supports first, then D2
C36_Witness ==
    /\ Returned
    /\ Len(file.content) = 7
    /\ SubSeq(file.content, 3, 7) = <<"decisions {", "decision D1", "supports: [I1]", "decision D2 {", "decision D1">>
    /\ parsed.decisions =
          <<Decision("D1", <<"I1">>, <<>>), Decision("D2", <<>>, <<>>)>>

\* the V-M3 errors of the report that name decision d
TraceErrorsOf(d) ==
    {k \in ErrorsWith("UNTRACED_DECISION") \cup ErrorsWith("BROKEN_REFERENCE") :
        /\ HasKey(Reported.errors[k].refs, "decision")
        /\ Get(Reported.errors[k].refs, "decision").s = "decisions." \o d.id}

\* the V-M3 outcome of the report
OutcomeVM3 ==
    Reported.outcomes[CHOOSE k \in 1..Len(Reported.outcomes) :
                         Reported.outcomes[k].validation_id = "V-M3"]

\* the decisions that got a V-M3 error, as targets
FailingTargets ==
    {"decisions." \o parsed.decisions[n].id :
        n \in {m \in 1..Len(parsed.decisions) :
                  TraceErrorsOf(parsed.decisions[m]) # {}}}

\* C37: each decision yields at most one V-M3 error; a decision with an
\* empty supports list yields exactly one UNTRACED_DECISION and no
\* BROKEN_REFERENCE, even when its respects list names undeclared
\* constraints; the V-M3 outcome is unsatisfied iff some decision yields
\* an error, its targets are then exactly the failing decisions, sorted
\* and without duplicates, and the V-M3 errors are as many as the targets.
C37_OneErrorPerDecision ==
    Passed =>
        /\ \A n \in 1..Len(parsed.decisions) :
              LET d == parsed.decisions[n]
              IN  /\ Cardinality(TraceErrorsOf(d)) <= 1
                  /\ Len(d.supports) = 0 =>
                        /\ Cardinality(TraceErrorsOf(d)) = 1
                        /\ TraceErrorsOf(d) \subseteq
                              ErrorsWith("UNTRACED_DECISION")
                        /\ BrokenReferencesOf(d) = {}
        /\ Cardinality(StatusOf("V-M3")) = 1
        /\ (OutcomeVM3.status = "unsatisfied") <=> (FailingTargets # {})
        /\ OutcomeVM3.status = "unsatisfied" =>
              /\ Elements(OutcomeVM3.targets) = FailingTargets
              /\ Len(OutcomeVM3.targets) = Cardinality(FailingTargets)
              /\ \A j, k \in 1..Len(OutcomeVM3.targets) :
                    j < k => localeCompare(<<OutcomeVM3.targets[j]>>,
                                           <<OutcomeVM3.targets[k]>>) < 0
              /\ Cardinality(ErrorsWith("UNTRACED_DECISION")
                             \cup ErrorsWith("BROKEN_REFERENCE"))
                    = Len(OutcomeVM3.targets)

\* D2 is declared before D1: D2 has no supports and respects the undeclared
\* C9, D1 supports the undeclared I9; two errors, targets D1 then D2
C37_Witness ==
    /\ Passed
    /\ parsed.decisions = <<Decision("D2", <<>>, <<"C9">>),
                            Decision("D1", <<"I9">>, <<>>)>>
    /\ OutcomeVM3.status = "unsatisfied"
    /\ OutcomeVM3.targets = <<"decisions.D1", "decisions.D2">>
    /\ Cardinality(ErrorsWith("UNTRACED_DECISION")) = 1
    /\ Cardinality(ErrorsWith("BROKEN_REFERENCE")) = 1

MandatoryRules == {"V-M1", "V-M2", "V-M3", "V-M4", "V-M5"}

\* the outcomes of the report that carry the validation id
OutcomesOf(id) ==
    {k \in 1..Len(Reported.outcomes) : Reported.outcomes[k].validation_id = id}

\* C38: every report of validateCore for a spec of supported version holds
\* exactly five outcomes, one for each of V-M1 to V-M5, none missing and
\* none repeated, whatever the statuses of the earlier rules: no rule
\* short-circuits the rules after it.
C38_FiveOutcomes ==
    Passed =>
        /\ Len(Reported.outcomes) = 5
        /\ \A id \in MandatoryRules : Cardinality(OutcomesOf(id)) = 1

\* V-M1 and V-M3 are unsatisfied and V-M4 is unknown: V-M5 is reported
\* all the same, here as satisfied
C38_Witness ==
    /\ Passed
    /\ StatusOf("V-M1") = {"unsatisfied"}
    /\ StatusOf("V-M3") = {"unsatisfied"}
    /\ StatusOf("V-M4") = {"unknown"}
    /\ StatusOf("V-M5") = {"satisfied"}
    /\ Reported.state = "invalid"

\* attempt k of the gate results is followed by an attempt of its gate
FollowedByAttempt(k) ==
    k < Len(passes) /\ passes[k + 1].gate = passes[k].gate

\* C39: in the gate results of a run receipt an attempt has a retry_reason
\* other than null if and only if another attempt of the same gate follows
\* it; the last recorded attempt of every gate has retry_reason null.
C39_RetryReasonIffRetried ==
    (Completed /\ GatesOfSpec # {}) =>
        /\ \A k \in 1..Len(passes) :
              (passes[k].retryReason # Null) <=> FollowedByAttempt(k)
        /\ \A k \in 1..Len(passes) :
              FollowedByAttempt(k) =>
                 passes[k + 1].attempt = passes[k].attempt + 1
        /\ Len(passes) > 0

\* a gate whose three attempts all ended in a transient failure or a crash:
\* the first two carry a retry reason, the third does not
C39_Witness ==
    /\ Completed
    /\ Len(passes) = 3
    /\ \A k \in 1..3 :
          /\ passes[k].gate = passes[1].gate
          /\ passes[k].failureKind
                \in {"unknown_agent_crash", "unknown_transient"}
    /\ passes[1].retryReason = "retryable: agent crash"
    /\ passes[2].retryReason = "retryable: transient failure"
    /\ passes[3].retryReason = Null

\* verify skips the validation: its capability is outside the allowlist,
\* it has no predicate, or its predicate does not start with the capability
SkippedByVerify(input, v) ==
    \/ v.requires_capability \notin VERIFICATION_CAPABILITIES
    \/ \A n \in 1..Len(input.predicates) : input.predicates[n].id # v.id
    \/ \E n \in 1..Len(input.predicates) :
          /\ input.predicates[n].id = v.id
          /\ input.predicates[n].text[1] # v.requires_capability

\* every validation of the spec whose id starts with the gate prefix is
\* skipped by verify
OnlySkipped(input, gate) ==
    \A n \in 1..Len(input.validations) :
        gateMatch(input.validations[n].id) = gate
           => SkippedByVerify(input, input.validations[n])

\* the result of a pass over the gate for a spawn result and a receipt of
\* verify, the spec being as it was before the first pass
QuietPass(gate, sr, r) ==
    SinglePassResult(sr, loop.specHashBefore, loop.specHashBefore, r)

====
